---- MODULE Spec2Model ----
(***************************************************************************)
(* A model of the Notion <-> issue tracker synchroniser                    *)
(* (thunderbird/notion-scripts): the property codecs and the page update   *)
(* of notion_data.py, the tracker-side milestone update of the GitHub and  *)
(* Bugzilla trackers, the sprint synchronisation of the synchronous        *)
(* engine, the task-group driven run of the asynchronous engine, the       *)
(* retrying HTTP clients with their shared rate-limit gate and the chunked *)
(* issue query of the GitHub tracker.                                      *)
(*                                                                         *)
(* Every component has its own specification over its own variables; the   *)
(* variables of the other components stay at their idle value.             *)
(***************************************************************************)
EXTENDS Integers, Sequences, FiniteSets, TLC

VARIABLES
    \* property codecs (round trip of one property)
    rtKind,      \* the property kind under test, "" when idle
    rtVal,       \* the domain value v
    rtWire,      \* the wire value _update produced for v
    rtDiff,      \* what _diff(wire, v) answered: "True", "False", "KeyError"
    rtPc,        \* "idle", "start", "encoded", "diffed"
    \* NotionDatabase.update_page
    upPage,      \* the page as the record store returned it
    upData,      \* the datadict handed to update_page
    upDry,       \* NotionDatabase.dry
    upResult,    \* "none" before the call, then "True", "False" or "KeyError"
    upCalls,     \* notion.pages.update requests sent
    \* IssueTracker.update_milestone_issue (assignees)
    asgTracker,  \* "github" or "bugzilla", "" when idle
    asgOld,      \* old_issue.assignees, a set of users
    asgNew,      \* new_issue.assignees, a set of users
    asgDry,      \* IssueTracker.dry
    asgAssigned, \* the assignees the tracker holds for the issue
    asgCalls,    \* mutating requests sent to the tracker
    asgPc,       \* "idle", "start", "done"
    \* ProjectSync.synchronize_sprints (synchronous engine)
    spSprints,   \* tracker.get_sprints(), a list
    spMerge,     \* sprints_merge_by_name
    spDry,       \* dry
    spLoaded,    \* _all_sprint_pages as loaded, by page id
    spStore,     \* the sprint pages the record store holds, by page id
    spById,      \* _sprint_pages_by_id: tracker sprint id -> page id
    spIdx,       \* the position of the loop in the list
    spLog,       \* the create and update requests sent, in order
    spPc,        \* "idle", "loop", "done", "raised-start", "raised-end"
    \* ProjectSync.synchronize (asynchronous engine)
    enDry,       \* dry
    enBodySync,  \* tasks_body_sync
    enBugs,      \* the issues the tracker holds, by id
    enMsPages,   \* the milestone pages the record store holds, by issue id
    enTaskPages, \* the task pages the record store holds, by issue id
    enStamps,    \* per collection, the run that last stamped its description
    enRun,       \* the number of the run, 0 when idle
    enPc,        \* where synchronize() is
    enIssues,    \* _notion_tasks_issues as discovered in this run
    enCollected, \* collected_tasks: issue id -> page or None
    enFetched,   \* the issues fetched in this run, by id
    enTg,        \* the state of every task of the two task groups
    enDesired,   \* the notion_data status computed for a task, by issue id
    enLog,       \* the requests of this run, in the order they were served
    enFailures,  \* requests that have failed so far
    enPrev,      \* how the previous run went
    \* the retrying clients and the shared rate_limit_gate (util.py)
    trClient,    \* "notion", "bugzilla" or "sync", "" when idle
    trAuto,      \* autoraise
    trFaults,    \* failures the servers may still answer with
    trGate,      \* rate_limit_gate: _event, seconds left to _until, _unlock tasks
    trCaller,    \* per caller of send: its locals and what it has observed
    trEngages,   \* engage calls so far: windows started, calls passed over
    \* GitHub.get_issues_by_number
    ghLen,       \* len(issues)
    ghI,         \* i
    ghChunk,     \* chunk_size
    ghRes,       \* the positions of the issues in res
    ghQueries,   \* queries sent so far
    ghTimeouts,  \* validation timeouts answered so far
    ghPc,        \* "idle", "loop", "returned", "raised-timeout", "raised-other"
    \* NotionDatabase.get_all_pages (libs/notion_data.py)
    paCursor,    \* cursor
    paPages,     \* pages
    paHist,      \* the next_cursor of every response so far
    paRequests,  \* databases.query requests sent
    paPc,        \* "idle", "loop", "returned"
    \* update_milestone_issue, the whole call (GitHub and Bugzilla)
    umTracker,   \* "github" or "bugzilla", "" when idle
    umOld,       \* old_issue
    umNew,       \* new_issue
    umItem,      \* the issue's item on the milestones project, NullObj when it has none
    umDry,       \* self.dry
    umCalls,     \* requests sent to the tracker
    umData,      \* the data Bugzilla was sent, NullObj when nothing was
    umPc,        \* "idle", "start", "done"
    \* collected_tasks: the sub-issues and the additional tasks
    coCollected, \* collected_tasks: (repo, id) -> page or None
    coSub,       \* tracker_issue.sub_issues of the fetched milestone
    coSprint,    \* the issues on the sprint board
    coPc,        \* "idle", "start", "collect", "done"
    \* ProjectSync._find_task_parents
    fpMilestones, \* self._notion_milestone_issues: (repo, id) -> page
    fpParents,   \* tracker_issue.parents
    fpRelation,  \* the milestone relation of the task record, None before
    fpPc,        \* "idle", "start", "done"
    \* the records of one collection as the synchronisations gather them
    rcScript,    \* "engine", "label_sync" or "bugzilla_sync", "" when idle
    rcPages,     \* pages: the issue link (unique id, bug number) of each record
    rcDry,       \* dry
    rcIssues,    \* the map issue -> record the gathering built
    rcArchived,  \* the records archived (pages.update archived=True)
    rcLog,       \* the log messages about records
    rcPc,        \* "idle", "start", "done", "TypeError"
    \* BaseSync._update_timestamp on the description of one database
    stInitial,   \* the description before the first run
    stDescription, \* the description of the database, as a list of pieces
    stStamped,   \* the project keys stamped so far
    stNow,       \* the runs so far, the clock of the next timestamp
    \* Bugzilla.get_issues_by_number
    bzLen,       \* len(bugids), the ids requested being 1..bzLen
    bzTasks,     \* the chunk tasks: start index -> "pending" or "done"
    bzYielded,   \* the issues yielded so far, in order
    bzPc,        \* "idle", "start", "gather", "returned"
    \* Tracker.parse_issueref on one URL
    prTracker,   \* "github" or "bugzilla", "" when idle
    prUrl,       \* the URL: scheme, netloc, path segments, query
    prResult,    \* what parse_issueref gave, NullObj before the call
    prPc,        \* "idle", "start", "done"
    \* an issue on the tasks and milestones boards (GitHub)
    bdVariant,   \* "libs" (GitHub._parse_issue) or "mzla" (GitHubFixups), "" when idle
    bdIssue,     \* the issue: parent, issue type, sub-issues
    bdSubIssues, \* the argument sub_issues
    bdOnTasks,   \* the issue has an item on the tasks board
    bdOnMilestones, \* the issue has an item on the milestones board
    bdComments,  \* the comments posted on the issue
    bdLog,       \* the warnings logged and the exception raised, if any
    bdPc,        \* "idle", "start", "parsed", "fixed", "raised"
    \* the status of one task over its runs (BaseSync._get_task_notion_data)
    stIssue,     \* the tracker issue, its state and closed_date
    stPage,      \* the task page in the record store or null
    stDerived,   \* the statuses derived since the issue last changed
    stRuns,      \* runs so far
    \* the start of a run (BaseSync._async_init, ProjectSync.synchronize)
    suCurrent,   \* the properties each collection has in the record store
    suDry,       \* dry run
    suValid,     \* what validate_props returned per collection, pending before
    suDiscovered, \* the task records were read
    suLog,       \* the calls made so far
    suPc         \* where the run is

codecVars == <<rtKind, rtVal, rtWire, rtDiff, rtPc>>
updateVars == <<upPage, upData, upDry, upResult, upCalls>>
assigneeVars == <<asgTracker, asgOld, asgNew, asgDry, asgAssigned, asgCalls, asgPc>>
sprintVars == <<spSprints, spMerge, spDry, spLoaded, spStore, spById, spIdx, spLog, spPc>>
engineVars ==
    <<enDry, enBodySync, enBugs, enMsPages, enTaskPages, enStamps, enRun, enPc,
      enIssues, enCollected, enFetched, enTg, enDesired, enLog, enFailures, enPrev>>
transportVars == <<trClient, trAuto, trFaults, trGate, trCaller, trEngages>>
chunkVars == <<ghLen, ghI, ghChunk, ghRes, ghQueries, ghTimeouts, ghPc>>
pagingVars == <<paCursor, paPages, paHist, paRequests, paPc>>
milestoneVars == <<umTracker, umOld, umNew, umItem, umDry, umCalls, umData, umPc>>
collectVars == <<coCollected, coSub, coSprint, coPc>>
parentsVars == <<fpMilestones, fpParents, fpRelation, fpPc>>
recordsVars == <<rcScript, rcPages, rcDry, rcIssues, rcArchived, rcLog, rcPc>>
stampVars == <<stInitial, stDescription, stStamped, stNow>>
bzVars == <<bzLen, bzTasks, bzYielded, bzPc>>
refVars == <<prTracker, prUrl, prResult, prPc>>
boardsVars == <<bdVariant, bdIssue, bdSubIssues, bdOnTasks, bdOnMilestones, bdComments, bdLog, bdPc>>
statusVars == <<stIssue, stPage, stDerived, stRuns>>
startupVars == <<suCurrent, suDry, suValid, suDiscovered, suLog, suPc>>
vars == <<codecVars, updateVars, assigneeVars, sprintVars, engineVars,
          transportVars, chunkVars, pagingVars,
          milestoneVars,
          collectVars,
          parentsVars,
          recordsVars,
          stampVars,
          bzVars,
          refVars,
          boardsVars,
          statusVars,
          startupVars>>

(* ------------------------------ bounds --------------------------------- *)

\* Days of January 2025 the date values range over.
MaxDay == 2

(* --------------------------- Python values ----------------------------- *)

\* None where the slot otherwise holds a string.
None == "<None>"
\* None where the slot otherwise holds an object (a dict).
NullObj == [null |-> TRUE]
\* None where the slot otherwise holds a date or datetime.
NoDate == [kind |-> "none"]
\* The empty dict page["properties"].get(prop_name, {}) falls back to.
EmptyDict == [empty |-> TRUE]

\* obj[key] under getnestedattr: a missing key (LookupError) or a None
\* object (TypeError) gives the default.
getnestedattr(obj, key, default) ==
    IF key \in DOMAIN obj THEN obj[key] ELSE default

Range(s) == {s[i] : i \in 1..Len(s)}

Pad2(n) == IF n < 10 THEN "0" \o ToString(n) ELSE ToString(n)
Pad3(n) == IF n < 10 THEN "00" \o ToString(n)
           ELSE IF n < 100 THEN "0" \o ToString(n) ELSE ToString(n)
Pad6(n) == Pad3(n \div 1000) \o Pad3(n % 1000)

\* datetime.date and (UTC) datetime.datetime values.
Dates == [kind : {"date"}, year : {2025}, month : {1}, day : 1..MaxDay]
DateTimes ==
    [kind : {"datetime"}, year : {2025}, month : {1}, day : 1..MaxDay,
     hour : {10}, minute : {0, 30}, second : {0, 30}, microsecond : {0, 250000}]

\* date.isoformat() / datetime.isoformat(timespec=...)
isoformat(v, timespec) ==
    LET day == ToString(v.year) \o "-" \o Pad2(v.month) \o "-" \o Pad2(v.day)
        frac == IF timespec = "milliseconds"
                THEN "." \o Pad3(v.microsecond \div 1000)
                ELSE IF v.microsecond = 0 THEN "" ELSE "." \o Pad6(v.microsecond)
    IN IF v.kind = "date" THEN day
       ELSE day \o "T" \o Pad2(v.hour) \o ":" \o Pad2(v.minute) \o ":"
                \o Pad2(v.second) \o frac \o "+00:00"

\* datetime.replace(second=0, microsecond=0)
replace_second0(v) == [v EXCEPT !.second = 0, !.microsecond = 0]

(* ----------------------------- components ----------------------------- *)

CodecIdle ==
    /\ rtKind = "" /\ rtVal = NullObj /\ rtWire = NullObj
    /\ rtDiff = "none" /\ rtPc = "idle"

UpdateIdle ==
    /\ upPage = NullObj /\ upData = NullObj /\ upDry = FALSE
    /\ upResult = "none" /\ upCalls = 0

AssigneeIdle ==
    /\ asgTracker = "" /\ asgOld = {} /\ asgNew = {} /\ asgDry = FALSE
    /\ asgAssigned = {} /\ asgCalls = 0 /\ asgPc = "idle"

SprintIdle ==
    /\ spSprints = <<>> /\ spMerge = FALSE /\ spDry = FALSE
    /\ spLoaded = <<>> /\ spStore = <<>> /\ spById = <<>>
    /\ spIdx = 0 /\ spLog = <<>> /\ spPc = "idle"

EngineIdle ==
    /\ enDry = FALSE /\ enBodySync = FALSE /\ enBugs = <<>> /\ enMsPages = <<>>
    /\ enTaskPages = <<>> /\ enStamps = <<>> /\ enRun = 0 /\ enPc = "idle"
    /\ enIssues = <<>> /\ enCollected = <<>> /\ enFetched = <<>> /\ enTg = <<>>
    /\ enDesired = <<>> /\ enLog = <<>> /\ enFailures = 0 /\ enPrev = NullObj

TransportIdle ==
    /\ trClient = "" /\ trAuto = FALSE /\ trFaults = 0 /\ trGate = NullObj
    /\ trCaller = <<>> /\ trEngages = NullObj

ChunkIdle ==
    /\ ghLen = 0 /\ ghI = 0 /\ ghChunk = 0 /\ ghRes = {}
    /\ ghQueries = 0 /\ ghTimeouts = 0 /\ ghPc = "idle"

PagingIdle ==
    /\ paCursor = None /\ paPages = <<>> /\ paHist = <<>>
    /\ paRequests = 0 /\ paPc = "idle"

MilestoneIdle ==
    /\ umTracker = "" /\ umOld = NullObj /\ umNew = NullObj /\ umItem = NullObj
    /\ umDry = FALSE /\ umCalls = 0 /\ umData = NullObj /\ umPc = "idle"

CollectIdle ==
    /\ coCollected = <<>> /\ coSub = {} /\ coSprint = {} /\ coPc = "idle"

ParentsIdle ==
    /\ fpMilestones = <<>> /\ fpParents = <<>> /\ fpRelation = None /\ fpPc = "idle"

RecordsIdle ==
    /\ rcScript = "" /\ rcPages = <<>> /\ rcDry = FALSE /\ rcIssues = <<>>
    /\ rcArchived = {} /\ rcLog = <<>> /\ rcPc = "idle"

StampIdle ==
    /\ stInitial = <<>> /\ stDescription = <<>> /\ stStamped = {} /\ stNow = 0

BzIdle ==
    /\ bzLen = 0 /\ bzTasks = <<>> /\ bzYielded = <<>> /\ bzPc = "idle"

RefIdle ==
    /\ prTracker = "" /\ prUrl = NullObj /\ prResult = NullObj /\ prPc = "idle"

BoardsIdle ==
    /\ bdVariant = "" /\ bdIssue = NullObj /\ bdSubIssues = FALSE /\ bdOnTasks = FALSE
    /\ bdOnMilestones = FALSE /\ bdComments = <<>> /\ bdLog = <<>> /\ bdPc = "idle"

StatusIdle ==
    stIssue = NullObj /\ stPage = NullObj /\ stDerived = <<>> /\ stRuns = 0

StartupIdle ==
    suCurrent = <<>> /\ suDry = FALSE /\ suValid = <<>> /\ suDiscovered = FALSE /\ suLog = <<>> /\ suPc = "idle"

\* Every component but c rests at its idle value ...
IdleExcept(c) ==
    /\ IF c = "codec" THEN TRUE ELSE CodecIdle
    /\ IF c = "update" THEN TRUE ELSE UpdateIdle
    /\ IF c = "assignee" THEN TRUE ELSE AssigneeIdle
    /\ IF c = "sprint" THEN TRUE ELSE SprintIdle
    /\ IF c = "engine" THEN TRUE ELSE EngineIdle
    /\ IF c = "transport" THEN TRUE ELSE TransportIdle
    /\ IF c = "chunk" THEN TRUE ELSE ChunkIdle
    /\ IF c = "paging" THEN TRUE ELSE PagingIdle
    /\ IF c = "milestone" THEN TRUE ELSE MilestoneIdle
    /\ IF c = "collect" THEN TRUE ELSE CollectIdle
    /\ IF c = "parents" THEN TRUE ELSE ParentsIdle
    /\ IF c = "records" THEN TRUE ELSE RecordsIdle
    /\ IF c = "stamp" THEN TRUE ELSE StampIdle
    /\ IF c = "bz" THEN TRUE ELSE BzIdle
    /\ IF c = "ref" THEN TRUE ELSE RefIdle
    /\ IF c = "boards" THEN TRUE ELSE BoardsIdle
    /\ IF c = "status" THEN TRUE ELSE StatusIdle
    /\ IF c = "startup" THEN TRUE ELSE StartupIdle

\* ... and stays there.
Frame(c) ==
    /\ IF c = "codec" THEN TRUE ELSE UNCHANGED codecVars
    /\ IF c = "update" THEN TRUE ELSE UNCHANGED updateVars
    /\ IF c = "assignee" THEN TRUE ELSE UNCHANGED assigneeVars
    /\ IF c = "sprint" THEN TRUE ELSE UNCHANGED sprintVars
    /\ IF c = "engine" THEN TRUE ELSE UNCHANGED engineVars
    /\ IF c = "transport" THEN TRUE ELSE UNCHANGED transportVars
    /\ IF c = "chunk" THEN TRUE ELSE UNCHANGED chunkVars
    /\ IF c = "paging" THEN TRUE ELSE UNCHANGED pagingVars
    /\ IF c = "milestone" THEN TRUE ELSE UNCHANGED milestoneVars
    /\ IF c = "collect" THEN TRUE ELSE UNCHANGED collectVars
    /\ IF c = "parents" THEN TRUE ELSE UNCHANGED parentsVars
    /\ IF c = "records" THEN TRUE ELSE UNCHANGED recordsVars
    /\ IF c = "stamp" THEN TRUE ELSE UNCHANGED stampVars
    /\ IF c = "bz" THEN TRUE ELSE UNCHANGED bzVars
    /\ IF c = "ref" THEN TRUE ELSE UNCHANGED refVars
    /\ IF c = "boards" THEN TRUE ELSE UNCHANGED boardsVars
    /\ IF c = "status" THEN TRUE ELSE UNCHANGED statusVars
    /\ IF c = "startup" THEN TRUE ELSE UNCHANGED startupVars

(* ------------- property codecs (mzla_notion/notion_data.py) ------------ *)

\* The options the select and multi-select properties are configured with.
SelectOptions == {"P1", "P2"}
MultiSelectOptions == {"bug", "ui"}

ValueError == [error |-> "ValueError"]

\* relation._normalize_relid: an id is a string, here its sequence of
\* characters, or a {"id": ...} dict; the dashes are removed.
_normalize_relid(relid) ==
    LET id == IF DOMAIN relid = {"id"} THEN relid.id ELSE relid
    IN SelectSeq(id, LAMBDA c : c # "-")

\* One side (start or end) of dates._update / date._update.
date_wire(v) == IF v.kind = "none" THEN None ELSE isoformat(v, "auto")

\* The isinstance tests in the other order: a datetime is a date too.
date_canon_date_first(v) ==
    IF v.kind \in {"date", "datetime"} THEN isoformat(v, "auto") ELSE None

\* One side of dates._diff / date._diff: Notion only saves datetimes up to
\* the minute, a date is compared as it is.
date_canon(v) ==
    IF v.kind = "datetime" THEN isoformat(replace_second0(v), "milliseconds")
    ELSE IF v.kind = "date" THEN isoformat(v, "auto")
    ELSE None

dates_update(content) ==
    IF "start" \in DOMAIN content
    THEN [date |-> [start |-> date_wire(content.start), end |-> date_wire(content.end)]]
    ELSE [date |-> NullObj]

dates_diff(property_data, content) ==
    LET date_data == getnestedattr(property_data, "date", NullObj)
        start_data == getnestedattr(date_data, "start", None)
        end_data == getnestedattr(date_data, "end", None)
        content_start == IF "start" \in DOMAIN content THEN date_canon(content.start) ELSE None
        content_end == IF "end" \in DOMAIN content THEN date_canon(content.end) ELSE None
    IN IF content_start # start_data \/ content_end # end_data THEN "True" ELSE "False"

date_update(content) ==
    IF content.kind # "none" THEN [date |-> [start |-> isoformat(content, "auto")]]
    ELSE [date |-> NullObj]

date_diff(property_data, content) ==
    LET date_data == getnestedattr(property_data, "date", NullObj)
        data == getnestedattr(date_data, "start", None)
    IN IF data # date_canon(content) THEN "True" ELSE "False"

status_update(content) == [status |-> [name |-> content]]

status_diff(property_data, content) ==
    IF "status" \notin DOMAIN property_data THEN "True"
    ELSE IF getnestedattr(property_data.status, "name", None) # content THEN "True"
    ELSE "False"

link_update(content) == [url |-> content]

link_diff(property_data, content) ==
    IF "url" \notin DOMAIN property_data THEN "True"
    ELSE IF property_data.url # content THEN "True"
    ELSE "False"

rich_text_update(content) == [rich_text |-> <<[text |-> [content |-> content]]>>]

rich_text_diff(property_data, content) ==
    IF "rich_text" \notin DOMAIN property_data THEN "True"
    ELSE IF Len(property_data.rich_text) = 0 THEN "True"
    ELSE IF "plain_text" \notin DOMAIN property_data.rich_text[1] THEN "KeyError"
    ELSE IF property_data.rich_text[1].plain_text # content THEN "True"
    ELSE "False"

number_update(content) == [number |-> content]

number_diff(property_data, content) ==
    IF "number" \notin DOMAIN property_data THEN "True"
    ELSE IF property_data.number # content THEN "True"
    ELSE "False"

select_update(content) ==
    IF content # None /\ content # "" /\ content \notin SelectOptions THEN ValueError
    ELSE IF content # None /\ content # "" THEN [select |-> [name |-> content]]
    ELSE [select |-> NullObj]

select_diff(property_data, content) ==
    IF "select" \notin DOMAIN property_data THEN "True"
    ELSE IF getnestedattr(property_data.select, "name", None) # content THEN "True"
    ELSE "False"

multi_select_update(content) ==
    IF \E i \in 1..Len(content) : content[i] \notin MultiSelectOptions THEN ValueError
    ELSE [multi_select |-> [i \in 1..Len(content) |-> [name |-> content[i]]]]

multi_select_diff(property_data, content) ==
    IF "multi_select" \notin DOMAIN property_data THEN "True"
    ELSE LET vals == {v.name : v \in Range(property_data.multi_select)}
         IN IF vals = Range(content) THEN "False" ELSE "True"

relation_update(page_ids) ==
    [relation |-> [i \in 1..Len(page_ids) |-> [id |-> _normalize_relid(page_ids[i])]]]

relation_diff(property_data, related_page_ids) ==
    LET existing_ids == {_normalize_relid(r) :
                            r \in Range(getnestedattr(property_data, "relation", <<>>))}
        normalized_related == {_normalize_relid(r) : r \in Range(related_page_ids)}
    IN IF existing_ids # normalized_related THEN "True" ELSE "False"

title_update(content) == [type |-> "title", title |-> <<[text |-> [content |-> content]]>>]

title_diff(property_data, content) ==
    IF "title" \notin DOMAIN property_data THEN "True"
    ELSE IF Len(property_data.title) = 0 THEN "True"
    ELSE IF "plain_text" \notin DOMAIN property_data.title[1] THEN "KeyError"
    ELSE IF property_data.title[1].plain_text # content THEN "True"
    ELSE "False"

\* None where the slot otherwise holds a list.
NoneList == <<None>>
\* `content or []`
or_empty(content) == IF content = NoneList THEN <<>> ELSE content

people_update(content) ==
    [type |-> "people",
     people |-> [i \in 1..Len(or_empty(content)) |->
                    [object |-> "user", id |-> or_empty(content)[i]]]]

\* people._diff comparing the id lists in order.
people_diff_ordered(property_data, content) ==
    IF "people" \notin DOMAIN property_data THEN "True"
    ELSE LET vals == [i \in 1..Len(property_data.people) |-> property_data.people[i].id]
         IN IF vals # or_empty(content) THEN "True" ELSE "False"

people_diff(property_data, content) ==
    IF "people" \notin DOMAIN property_data THEN "True"
    ELSE LET vals == {v.id : v \in Range(property_data.people)}
         IN IF vals # Range(or_empty(content)) THEN "True" ELSE "False"

\* NotionProperty.update_content, by the kind of the property.
update_content(kind, content) ==
    CASE kind = "title" -> title_update(content)
      [] kind = "rich_text" -> rich_text_update(content)
      [] kind = "link" -> link_update(content)
      [] kind = "number" -> number_update(content)
      [] kind = "select" -> select_update(content)
      [] kind = "multi_select" -> multi_select_update(content)
      [] kind = "relation" -> relation_update(content)
      [] kind = "date" -> date_update(content)
      [] kind = "dates" -> dates_update(content)
      [] kind = "people" -> people_update(content)
      [] kind = "status" -> status_update(content)

\* NotionProperty.is_prop_diff, by the kind of the property.
is_prop_diff(kind, property_data, content) ==
    CASE kind = "title" -> title_diff(property_data, content)
      [] kind = "rich_text" -> rich_text_diff(property_data, content)
      [] kind = "link" -> link_diff(property_data, content)
      [] kind = "number" -> number_diff(property_data, content)
      [] kind = "select" -> select_diff(property_data, content)
      [] kind = "multi_select" -> multi_select_diff(property_data, content)
      [] kind = "relation" -> relation_diff(property_data, content)
      [] kind = "date" -> date_diff(property_data, content)
      [] kind = "dates" -> dates_diff(property_data, content)
      [] kind = "people" -> people_diff(property_data, content)
      [] kind = "status" -> status_diff(property_data, content)

(* --------------------- round trip of one property ---------------------- *)

IdDashed == <<"7", "2", "-", "6", "f">>
IdPlain == <<"8", "9", "c", "c">>
\* A date-time with seconds and one on the full minute.
SomeDateTimes ==
    {d \in DateTimes : d.day = 1 /\ d.minute = 30 /\ d.microsecond = 0}
DateSides == Dates \cup SomeDateTimes \cup {NoDate}

\* The valid domain values of each property kind.
DomainValues(kind) ==
    CASE kind = "title" -> {"", "Fix the dialog"}
      [] kind = "rich_text" -> {"", "alice bob"}
      [] kind = "link" -> {None, "https://example.com/repo/234"}
      [] kind = "number" -> {0, 7}
      [] kind = "select" -> SelectOptions \cup {None}
      [] kind = "multi_select" -> {<<>>, <<"bug">>, <<"bug", "ui">>, <<"ui", "bug">>}
      [] kind = "relation" -> {<<>>, <<IdDashed>>, <<IdPlain>>, <<IdDashed, IdPlain>>}
      [] kind = "date" -> Dates \cup DateTimes \cup {NoDate}
      [] kind = "dates" ->
            {NullObj} \cup
            {c \in [start : DateSides, end : DateSides] :
                c.start.kind # "none" \/ c.end.kind # "none"}
      [] kind = "people" -> {NoneList, <<>>, <<"u1">>, <<"u1", "u2">>}
      [] kind = "status" -> {"Backlog", "Done"}

Kinds == {"title", "rich_text", "link", "number", "select", "multi_select",
          "relation", "date", "dates", "people", "status"}

InitRoundTrip ==
    /\ rtKind \in Kinds
    /\ rtVal \in DomainValues(rtKind)
    /\ rtWire = NullObj
    /\ rtDiff = "none"
    /\ rtPc = "start"
    /\ IdleExcept("codec")

\* wire = prop.update_content(v)
RtEncode ==
    /\ rtPc = "start"
    /\ rtWire' = update_content(rtKind, rtVal)
    /\ rtPc' = "encoded"
    /\ UNCHANGED <<rtKind, rtVal, rtDiff>>
    /\ Frame("codec")

\* prop.is_prop_diff(wire, v)
RtDiff ==
    /\ rtPc = "encoded"
    /\ rtDiff' = is_prop_diff(rtKind, rtWire, rtVal)
    /\ rtPc' = "diffed"
    /\ UNCHANGED <<rtKind, rtVal, rtWire>>
    /\ Frame("codec")

NextRoundTrip == RtEncode \/ RtDiff

SpecRoundTrip == InitRoundTrip /\ [][NextRoundTrip]_vars

\* Whether a date or date-range value holds a date-time on some side.
HasDateTime(kind, v) ==
    \/ kind = "date" /\ v.kind = "datetime"
    \/ kind = "dates" /\ v # NullObj
                      /\ (v.start.kind = "datetime" \/ v.end.kind = "datetime")

\* C3 as stated: for every property kind and every valid value v,
\* diff(encode(v), v) reports no difference.
C3_RoundTripAllKinds == rtPc = "diffed" => rtDiff = "False"

\* C3 amended: diff(encode(v), v) reports no difference for link, number,
\* select, multi-select, relation, people, status and for date and date-range
\* values without a date-time; on an encoded title or rich text diff raises
\* KeyError (the encoder writes no plain_text), and for a date-time it
\* reports a difference (the encoder writes the full ISO string, diff compares
\* the minute-truncated millisecond form).
C3_RoundTripAmended ==
    rtPc = "diffed" =>
        rtDiff = (IF rtKind \in {"title", "rich_text"} THEN "KeyError"
                  ELSE IF HasDateTime(rtKind, rtVal) THEN "True"
                  ELSE "False")

\* A date range of two plain dates went through encode and diff unchanged.
C3_Witness ==
    /\ rtPc = "diffed" /\ rtKind = "dates" /\ rtVal # NullObj
    /\ rtVal.start.kind = "date" /\ rtVal.end.kind = "date"
    /\ rtDiff = "False"

(* --------------------- NotionDatabase.update_page ---------------------- *)

\* The registered properties (self.properties) of the collection and their
\* kinds. "Status" is not registered; page_diff handles it by name.
cur_props ==
    [Title |-> "title", Link |-> "link", Priority |-> "select",
     Assignee |-> "people", Dates |-> "dates"]

\* The record store's answer to a created page: a single-key property gets
\* its "type", the text items of a title or rich text get "plain_text".
create_handler_prop(prop) ==
    LET type == IF Cardinality(DOMAIN prop) = 1
                THEN CHOOSE k \in DOMAIN prop : TRUE ELSE prop.type
        typed == [k \in DOMAIN prop \cup {"type"} |->
                     IF k = "type" THEN type ELSE prop[k]]
    IN IF type \in {"rich_text", "text", "title"}
       THEN [typed EXCEPT ![type] =
                [i \in 1..Len(@) |->
                    IF "plain_text" \in DOMAIN @[i] THEN @[i]
                    ELSE [k \in DOMAIN @[i] \cup {"plain_text"} |->
                             IF k = "plain_text" THEN @[i].text.content ELSE @[i][k]]]]
       ELSE typed

\* Python truthiness of a string-or-None slot.
Truthy(v) == v # None /\ v # ""

\* NotionDatabase.dict_to_page: the Status by name, then the update_content
\* of every registered property of the datadict.
dict_to_page(datadict) ==
    LET names == (DOMAIN datadict \cap DOMAIN cur_props) \cup
                 (IF "Status" \in DOMAIN datadict /\ Truthy(datadict.Status)
                  THEN {"Status"} ELSE {})
    IN [n \in names |->
           IF n = "Status" THEN [status |-> [name |-> datadict.Status]]
           ELSE update_content(cur_props[n], datadict[n])]

create_handler(reqjson) ==
    [id |-> "page-1",
     properties |-> [n \in DOMAIN reqjson |-> create_handler_prop(reqjson[n])]]

\* NotionDatabase.page_diff: "True", "False", or "KeyError" when it raises.
page_diff(datadict, page) ==
    LET has_status == "Status" \in DOMAIN datadict /\ Truthy(datadict.Status)
        names == (DOMAIN datadict \ {"Status"}) \cap DOMAIN cur_props
        old_prop(n) == IF n \in DOMAIN page.properties
                       THEN page.properties[n] ELSE EmptyDict
        diffs == {is_prop_diff(cur_props[n], old_prop(n), datadict[n]) : n \in names}
    IN IF has_status /\ "Status" \notin DOMAIN page.properties THEN "KeyError"
       ELSE IF has_status /\ datadict.Status # page.properties.Status.status.name
            THEN "True"
       ELSE IF "KeyError" \in diffs THEN "KeyError"
       ELSE IF "True" \in diffs THEN "True"
       ELSE "False"

\* The datadicts of the update scenarios: a full one, the same with one
\* field changed, partial ones, and one with a key that is no property.
DataBase ==
    [Title |-> "Fix the dialog", Link |-> "https://example.com/repo/234",
     Priority |-> "P1", Assignee |-> <<"u1", "u2">>,
     Dates |-> [start |-> [kind |-> "date", year |-> 2025, month |-> 1, day |-> 1],
                end |-> [kind |-> "date", year |-> 2025, month |-> 1, day |-> MaxDay]],
     Status |-> "Backlog"]

DataDicts ==
    {DataBase,
     [DataBase EXCEPT !.Title = "Fix the dialogue"],
     [DataBase EXCEPT !.Title = ""],
     [DataBase EXCEPT !.Link = None],
     [DataBase EXCEPT !.Priority = "P2"],
     [DataBase EXCEPT !.Priority = None],
     [DataBase EXCEPT !.Assignee = <<"u2", "u1">>],
     [DataBase EXCEPT !.Assignee = <<"u1">>],
     [DataBase EXCEPT !.Assignee = NoneList],
     [DataBase EXCEPT !.Dates = NullObj],
     [DataBase EXCEPT !.Dates.end = NoDate],
     [DataBase EXCEPT !.Status = "Done"],
     [DataBase EXCEPT !.Status = None],
     [Title |-> "Fix the dialog", Status |-> "Backlog"],
     [Priority |-> "P1", Assignee |-> <<"u1", "u2">>],
     [Title |-> "Fix the dialog", Team |-> "desktop"]}

\* The pages the store holds: what it answered when a full datadict was
\* created (a page of a collection carries all of its properties).
Pages ==
    {create_handler(dict_to_page(d)) :
        d \in {x \in DataDicts : DOMAIN x = DOMAIN DataBase /\ Truthy(x.Status)}}

InitUpdate ==
    /\ upPage \in Pages
    /\ upData \in DataDicts
    /\ upDry \in BOOLEAN
    /\ upResult = "none"
    /\ upCalls = 0
    /\ IdleExcept("update")

\* await update_page(page, datadict): the request goes out when page_diff
\* says so and the database is not dry; a raising page_diff sends nothing.
update_page ==
    /\ upResult = "none"
    /\ LET changed == page_diff(upData, upPage)
       IN /\ upResult' = changed
          /\ upCalls' = IF changed = "True" /\ ~upDry THEN upCalls + 1 ELSE upCalls
    /\ UNCHANGED <<upPage, upData, upDry>>
    /\ Frame("update")

NextUpdate == update_page

SpecUpdate == InitUpdate /\ [][NextUpdate]_vars

\* The value a well-formed stored property holds, by kind.
StoredValue(kind, prop) ==
    CASE kind = "title" -> prop.title[1].plain_text
      [] kind = "link" -> prop.url
      [] kind = "select" -> IF prop.select = NullObj THEN None ELSE prop.select.name
      [] kind = "people" -> {v.id : v \in Range(prop.people)}
      [] kind = "dates" ->
            IF prop.date = NullObj THEN [start |-> None, end |-> None]
            ELSE [start |-> prop.date.start, end |-> prop.date.end]

\* The same for a supplied value: people as a set, dates as the store
\* keeps them.
SuppliedValue(kind, v) ==
    CASE kind \in {"title", "link", "select"} -> v
      [] kind = "people" -> IF v = NoneList THEN {} ELSE Range(v)
      [] kind = "dates" ->
            IF v = NullObj THEN [start |-> None, end |-> None]
            ELSE [start |-> IF v.start.kind = "none" THEN None
                            ELSE isoformat(v.start, "auto"),
                  end |-> IF v.end.kind = "none" THEN None
                          ELSE isoformat(v.end, "auto")]

\* A supplied field differs from what the page holds. A field is supplied
\* when the datadict names a property of the collection, or a Status.
FieldDiffers(n) ==
    IF n = "Status"
    THEN Truthy(upData.Status) /\ upData.Status # upPage.properties.Status.status.name
    ELSE StoredValue(cur_props[n], upPage.properties[n])
            # SuppliedValue(cur_props[n], upData[n])

SomeFieldDiffers ==
    \E n \in DOMAIN upData \cap (DOMAIN cur_props \cup {"Status"}) : FieldDiffers(n)

TrackerUsers == {"alice", "bob", "carol", "dave"}
trk_to_notion == [alice |-> "n-alice", bob |-> "n-bob"]

\* User.notion_user
notion_user(u) == IF u \in DOMAIN trk_to_notion THEN trk_to_notion[u] ELSE None

\* GitHubUser.dbid_user: the database id GitHub gives the login.
dbid_user(u) == "dbid-" \o u

\* GitHub._update_issue_assignees without the community members.
community_assignees_dropped(old_assignees) == {}

\* GitHub._update_issue_assignees: the old assignees the user map does not
\* know, by database id.
community_assignees(old_assignees) ==
    {dbid_user(a) : a \in {x \in old_assignees : notion_user(x) = None}}

\* The assignees a tracker issue may carry: at most MaxAssignees on GitHub,
\* at most one on Bugzilla (assigned_to).
MaxAssignees == 2
AssigneeSets(max) == {S \in SUBSET TrackerUsers : Cardinality(S) <= max}

InitAssignee ==
    /\ asgTracker \in {"github", "bugzilla"}
    /\ asgOld \in AssigneeSets(IF asgTracker = "github" THEN MaxAssignees ELSE 1)
    /\ asgNew \in AssigneeSets(MaxAssignees)
    /\ asgDry \in BOOLEAN
    /\ asgAssigned = asgOld
    /\ asgCalls = 0
    /\ asgPc = "start"
    /\ IdleExcept("assignee")

\* GitHub.update_milestone_issue, the assignees: add and remove by the
\* difference to the old issue, one request for both.
github_update_issue_assignees ==
    /\ asgPc = "start" /\ asgTracker = "github"
    /\ LET db_assignees == {dbid_user(u) : u \in asgNew}
           old_assignees == {dbid_user(a) : a \in asgOld}
           new_assignees == community_assignees(asgOld) \cup db_assignees
           remove == old_assignees \ new_assignees
           add == new_assignees \ old_assignees
           byid(ids) == {u \in TrackerUsers : dbid_user(u) \in ids}
       IN IF (remove = {} /\ add = {}) \/ asgDry
          THEN UNCHANGED <<asgAssigned, asgCalls>>
          ELSE /\ asgAssigned' = (asgAssigned \ byid(remove)) \cup byid(add)
               /\ asgCalls' = asgCalls + 1
    /\ asgPc' = "done"
    /\ UNCHANGED <<asgTracker, asgOld, asgNew, asgDry>>
    /\ Frame("assignee")

\* Bugzilla.update_milestone_issue, the assignee: next(iter(...)) takes any
\* one element of the set; assigned_to is sent when old and new differ and
\* the old one is nobody or a user of the map.
bugzilla_update_milestone_issue ==
    /\ asgPc = "start" /\ asgTracker = "bugzilla"
    /\ \E old_assignee \in (IF asgOld = {} THEN {None} ELSE asgOld),
          new_assignee \in (IF asgNew = {} THEN {None} ELSE asgNew) :
          LET old_assignee_is_notion_user ==
                  old_assignee # None /\ notion_user(old_assignee) # None
              sets == /\ old_assignee # new_assignee
                      /\ old_assignee = None \/ old_assignee_is_notion_user
          IN IF sets /\ ~asgDry
             THEN /\ asgAssigned' = IF new_assignee = None THEN {} ELSE {new_assignee}
                  /\ asgCalls' = asgCalls + 1
             ELSE UNCHANGED <<asgAssigned, asgCalls>>
    /\ asgPc' = "done"
    /\ UNCHANGED <<asgTracker, asgOld, asgNew, asgDry>>
    /\ Frame("assignee")

NextAssignee == github_update_issue_assignees \/ bugzilla_update_milestone_issue

SpecAssignee == InitAssignee /\ [][NextAssignee]_vars

\* The case of the claim: the old issue has an assignee u the user map does
\* not know, the new state a mapped assignee m the old issue did not have.
UnknownAndMapped(u, m) ==
    /\ u \in asgOld /\ notion_user(u) = None
    /\ m \in asgNew /\ notion_user(m) # None /\ m \notin asgOld

\* C4 as stated: after update_milestone_issue the unknown old assignee is on
\* the issue alongside the new mapped one.
C4_KeptAlongside ==
    (asgPc = "done" /\ ~asgDry) =>
        \A u, m \in TrackerUsers :
            UnknownAndMapped(u, m) => (u \in asgAssigned /\ m \in asgAssigned)

\* C4 amended: the unknown old assignee is never removed or replaced; on
\* GitHub the new mapped assignee is added alongside it, on Bugzilla (one
\* assignee per bug) the unknown assignee stays and the new one is not
\* assigned.
C4_KeptAmended ==
    asgPc = "done" =>
        \A u, m \in TrackerUsers :
            UnknownAndMapped(u, m) =>
                /\ u \in asgAssigned
                /\ (asgTracker = "github" /\ ~asgDry) => m \in asgAssigned
                /\ asgTracker = "bugzilla" => asgAssigned = asgOld

\* GitHub added the mapped assignee next to the community member the new
\* state did not name.
C4_Witness ==
    /\ asgPc = "done" /\ asgTracker = "github" /\ ~asgDry
    /\ asgOld = {"carol"} /\ asgNew = {"alice"}
    /\ asgAssigned = {"carol", "alice"} /\ asgCalls = 1

(* -------- ProjectSync.synchronize_sprints (libs/project_sync) ---------- *)

\* Sprints the tracker lists at most.
MaxSprints == 2

SprintIds == {"s" \o ToString(i) : i \in 1..MaxSprints}
SprintNames == {"Sprint 1", "Sprint 2"}
SprintStarts == {[kind |-> "date", year |-> 2025, month |-> 1, day |-> d] : d \in {1, 8}}
SprintEnds == {[kind |-> "date", year |-> 2025, month |-> 1, day |-> d] : d \in {7, 15}}

\* common.Sprint
Sprints ==
    [id : SprintIds, name : SprintNames, status : {"Current"},
     start_date : SprintStarts, end_date : SprintEnds]

\* The lists of sprints a tracker answers, every sprint with an id of its own.
SprintLists ==
    {l \in UNION {[1..n -> Sprints] : n \in 1..MaxSprints} :
        \A i, j \in DOMAIN l : i # j => l[i].id # l[j].id}

\* A sprint page: its id, and of its properties the title, the dates as the
\* store returns them, the status and the tracker ids (one per line in the
\* page, a list here).
SprintPages ==
    [id : {"p1"}, title : SprintNames, status : {"Current"},
     start : {isoformat(d, "auto") : d \in SprintStarts},
     end : {isoformat(d, "auto") : d \in SprintEnds},
     tracker_ids : {<<"s0">>, <<"s1">>}]

\* A dict as a function with a finite domain; <<>> is the empty dict.
Put(dict, key, value) ==
    [k \in DOMAIN dict \cup {key} |-> IF k = key THEN value ELSE dict[k]]

\* _sprint_pages_by_id: every tracker id of every page.
_sprint_pages_by_id(pages) ==
    LET ids == UNION {Range(pages[pid].tracker_ids) : pid \in DOMAIN pages}
    IN [i \in ids |-> CHOOSE pid \in DOMAIN pages : i \in Range(pages[pid].tracker_ids)]

\* _sprint_pages_by_title: the pages that have a title, by title.
_sprint_pages_by_title(pages) ==
    LET titles == {pages[pid].title : pid \in DOMAIN pages} \ {""}
    IN [t \in titles |-> CHOOSE pid \in DOMAIN pages : pages[pid].title = t]

InitSprint ==
    /\ spSprints \in SprintLists
    /\ spMerge \in BOOLEAN
    /\ spDry \in BOOLEAN
    /\ spLoaded \in {<<>>} \cup {[pid \in {pg.id} |-> pg] : pg \in SprintPages}
    /\ spStore = spLoaded
    /\ spById = _sprint_pages_by_id(spLoaded)
    /\ spIdx = 1
    /\ spLog = <<>>
    /\ spPc = "loop"
    /\ IdleExcept("sprint")

\* The start date test of the merge, passing whatever the dates are.
start_dates_mismatch_off(page, sprint) == FALSE

\* page_dates["start"] != sprint.start_date.isoformat()
start_dates_mismatch(page, sprint) ==
    page.start # isoformat(sprint.start_date, "auto")

\* page_dates["end"] != sprint.end_date.isoformat()
end_dates_mismatch(page, sprint) ==
    page.end # isoformat(sprint.end_date, "auto")

\* Whether update_page(page, notion_data) finds a difference for a sprint.
sprint_page_changed(page, sprint) ==
    \/ page.title # sprint.name
    \/ page.start # isoformat(sprint.start_date, "auto")
    \/ page.end # isoformat(sprint.end_date, "auto")
    \/ page.status # sprint.status

\* The page create_page answers with for a sprint.
sprint_page_created(pid, sprint) ==
    [id |-> pid, title |-> sprint.name, status |-> sprint.status,
     start |-> isoformat(sprint.start_date, "auto"),
     end |-> isoformat(sprint.end_date, "auto"),
     tracker_ids |-> <<sprint.id>>]

\* One pass of the loop of synchronize_sprints: the sprint at spIdx is
\* updated by its id, merged by its name, or created. A raise ends the loop.
synchronize_sprints ==
    /\ spPc = "loop"
    /\ LET sprint == spSprints[spIdx]
           by_title == _sprint_pages_by_title(spLoaded)
           next_pc == IF spIdx = Len(spSprints) THEN "done" ELSE "loop"
       IN IF sprint.id \in DOMAIN spById
          THEN LET pid == spById[sprint.id]
                   page == spLoaded[pid]
                   sent == sprint_page_changed(page, sprint) /\ ~spDry
               IN /\ spStore' = IF sent
                                THEN [spStore EXCEPT ![pid] =
                                        [sprint_page_created(pid, sprint)
                                            EXCEPT !.tracker_ids = spStore[pid].tracker_ids]]
                                ELSE spStore
                  /\ spLog' = IF sent
                              THEN Append(spLog, [op |-> "update", sprint |-> sprint.id, page |-> pid])
                              ELSE spLog
                  /\ spIdx' = spIdx + 1 /\ spPc' = next_pc
                  /\ UNCHANGED spById
          ELSE IF spMerge /\ sprint.name \in DOMAIN by_title
          THEN LET pid == by_title[sprint.name]
                   page == spLoaded[pid]
                   page_tracker_ids == Append(page.tracker_ids, sprint.id)
               IN IF start_dates_mismatch(page, sprint)
                  THEN /\ spPc' = "raised-start"
                       /\ UNCHANGED <<spStore, spLog, spIdx, spById>>
                  ELSE IF end_dates_mismatch(page, sprint)
                  THEN /\ spPc' = "raised-end"
                       /\ UNCHANGED <<spStore, spLog, spIdx, spById>>
                  ELSE /\ spStore' = IF spDry THEN spStore
                                     ELSE [spStore EXCEPT ![pid].tracker_ids = page_tracker_ids]
                       /\ spLog' = IF spDry THEN spLog
                                   ELSE Append(spLog, [op |-> "update", sprint |-> sprint.id, page |-> pid])
                       /\ spById' = Put(spById, sprint.id, pid)
                       /\ spIdx' = spIdx + 1 /\ spPc' = next_pc
          ELSE LET pid == IF spDry THEN "dry" ELSE "new-" \o sprint.id
               IN /\ spStore' = IF spDry THEN spStore
                                ELSE Put(spStore, pid, sprint_page_created(pid, sprint))
                  /\ spLog' = IF spDry THEN spLog
                              ELSE Append(spLog, [op |-> "create", sprint |-> sprint.id, page |-> pid])
                  /\ spById' = Put(spById, sprint.id, pid)
                  /\ spIdx' = spIdx + 1 /\ spPc' = next_pc
    /\ UNCHANGED <<spSprints, spMerge, spDry, spLoaded>>
    /\ Frame("sprint")

NextSprint == synchronize_sprints

SpecSprint == InitSprint /\ [][NextSprint]_vars

\* The case of the claim for the sprint at position i: merging by name is
\* on, a loaded sprint page has the sprint's name as its title and another
\* start date.
SameNameOtherStart(i) ==
    /\ spMerge
    /\ \E pid \in DOMAIN spLoaded :
           /\ spLoaded[pid].title = spSprints[i].name
           /\ spLoaded[pid].start # isoformat(spSprints[i].start_date, "auto")

\* No sprint page carries the tracker id of the sprint at position i.
NoPageOfId(i) ==
    \A pid \in DOMAIN spLoaded : spSprints[i].id \notin Range(spLoaded[pid].tracker_ids)

\* The requests sent for the sprint at position i.
LogOf(i) == SelectSeq(spLog, LAMBDA e : e.sprint = spSprints[i].id)

\* C5 as stated: when a tracker sprint has the name of an existing sprint
\* record but another start date, the synchronisation raises and no record
\* is created or updated.
C5_ConflictNoWrites ==
    \A i \in DOMAIN spSprints :
        (SameNameOtherStart(i) /\ (spIdx > i \/ (spIdx = i /\ spPc # "loop"))) =>
            (spPc = "raised-start" /\ spIdx = i /\ spLog = <<>>)

\* C5 amended: a sprint whose id no sprint record carries and whose name is
\* the title of a record with another start date raises the merge conflict:
\* the loop never passes it, no record is created or updated for it, and no
\* later sprint is processed; sprints before it in the list have been
\* written by then.
C5_ConflictAmended ==
    \A i \in DOMAIN spSprints :
        (SameNameOtherStart(i) /\ NoPageOfId(i)) =>
            /\ spIdx <= i
            /\ spPc # "done"
            /\ LogOf(i) = <<>>
            /\ spIdx = i => (spPc = "raised-start" \/ spPc = "loop")
            /\ \A j \in DOMAIN spSprints : j > i => LogOf(j) = <<>>

\* The merge conflict was raised for the second sprint after the first one
\* had been created.
C5_Witness ==
    /\ spPc = "raised-start" /\ spIdx = 2
    /\ SameNameOtherStart(2) /\ NoPageOfId(2)
    /\ Len(spLog) = 1 /\ spLog[1].op = "create"

(* ------------- ProjectSync.synchronize (mzla_notion/sync) -------------- *)

\* Runs of the engine in a row.
MaxRuns == 2
\* Requests that fail over all the runs.
MaxFailures == 1

\* propnames: notion_default_open_state, notion_closed_states
notion_default_open_state == "Backlog"
notion_closed_states == <<"Done", "Canceled">>

tasks_notion_prefix == "[task] "
milestones_tracker_prefix == ""

\* The milestone issue and its sub-issues in the tracker.
MilestoneId == "m1"
TaskIds == {"t1", "t2"}
sub_issues == [m1 |-> <<"t1", "t2">>]

ClosedAt ==
    [kind |-> "datetime", year |-> 2025, month |-> 1, day |-> 1,
     hour |-> 10, minute |-> 30, second |-> 30, microsecond |-> 0]

\* The status turned over whenever the issue has no state, whatever the
\* closed date says.
final_status_toggle(state, closed_date, old_page) ==
    IF Truthy(state) THEN state
    ELSE IF old_page # NullObj
            /\ old_page.properties.Status.status.name \notin Range(notion_closed_states)
    THEN notion_closed_states[1]
    ELSE notion_default_open_state

\* The status the old page never decides: the issue's own state when it has
\* one, else open or closed by the closed date alone.
final_status_no_memory(state, closed_date, old_page) ==
    IF Truthy(state) THEN state
    ELSE IF closed_date.kind # "none" THEN notion_closed_states[1]
    ELSE IF old_page # NullObj THEN old_page.properties.Status.status.name
    ELSE notion_default_open_state

\* The status that reopens every closed page, whatever the closed date.
final_status_reopening(state, closed_date, old_page) ==
    LET old_status ==
            IF old_page = NullObj THEN None
            ELSE getnestedattr(old_page.properties.Status.status, "name", None)
    IN IF Truthy(state) THEN state
       ELSE IF old_status \in Range(notion_closed_states)
       THEN notion_default_open_state
       ELSE IF closed_date.kind # "none" THEN notion_closed_states[1]
       ELSE IF old_page # NullObj THEN old_status
       ELSE notion_default_open_state

\* _get_task_notion_data, the status: the issue's state; without one, the
\* status of the old page unless the closed date says it changed sides.
final_status(state, closed_date, old_page) ==
    IF Truthy(state) THEN state
    ELSE IF old_page # NullObj
    THEN LET old_status ==
                 getnestedattr(getnestedattr(getnestedattr(old_page.properties,
                     "Status", NullObj), "status", NullObj), "name", None)
             is_closed == old_status \in Range(notion_closed_states)
         IN IF is_closed /\ closed_date.kind = "none" THEN notion_default_open_state
            ELSE IF ~is_closed /\ closed_date.kind # "none" THEN notion_closed_states[1]
            ELSE old_status
    ELSE IF closed_date.kind # "none" THEN notion_closed_states[1]
    ELSE notion_default_open_state

\* IssueTracker.notion_tasks_title
notion_tasks_title(prefix, issue) == prefix \o issue.title

\* _get_task_notion_data: the title and the status of the task page.
_get_task_notion_data(tracker_issue, old_page) ==
    [Title |-> notion_tasks_title(tasks_notion_prefix, tracker_issue),
     Status |-> final_status(tracker_issue.state, tracker_issue.closed_date, old_page)]

\* "".join(plain_text of the items)
RECURSIVE JoinPlainText(_)
JoinPlainText(items) ==
    IF Len(items) = 0 THEN ""
    ELSE items[1].plain_text \o JoinPlainText(Tail(items))

\* _get_richtext_prop(page, "notion_milestones_title", default)
_get_richtext_prop(page, default) ==
    LET prop == getnestedattr(getnestedattr(page.properties, "Title", NullObj),
                              "title", <<>>)
    IN IF Len(prop) > 0 THEN JoinPlainText(prop) ELSE default

\* synchronize_single_milestone: the issue the page asks for.
new_issue(tracker_issue, page) ==
    [tracker_issue EXCEPT
        !.title = milestones_tracker_prefix \o _get_richtext_prop(page, ""),
        !.state = getnestedattr(getnestedattr(getnestedattr(page.properties,
                      "Status", NullObj), "status", NullObj), "name", None)]

\* Bugzilla.update_milestone_issue: the changed fields (_set_if).
update_data(old_issue, new) ==
    (IF old_issue.title # new.title THEN {"summary"} ELSE {}) \cup
    (IF old_issue.state # new.state THEN {"status"} ELSE {})

\* The tracker's answer to the update: the bug with the sent fields.
update_handler(bug, data, new) ==
    [bug EXCEPT !.title = IF "summary" \in data THEN new.title ELSE @,
                !.state = IF "status" \in data THEN new.state ELSE @]

\* The record store's answer to pages.update: the page with the sent
\* properties, kept as on create.
pages_update(page, data) ==
    [page EXCEPT !.properties =
        [n \in DOMAIN page.properties \cup DOMAIN data |->
            IF n \in DOMAIN data THEN create_handler_prop(data[n])
            ELSE page.properties[n]]]

\* The tasks of the first task group (the milestone and task syncs) and of
\* the second (the timestamps), and the body of the first group.
Group1 == {MilestoneId} \cup TaskIds
Group2 == {"milestones_db", "tasks_db"}
Finished == {"none", "done", "failed", "cancelled"}

Mutations == {"tracker_update", "page_create", "page_update", "blocks_append"}
Reads == {"db_query", "fetch", "blocks_list", "db_info"}

Entry(op, id) == [op |-> op, id |-> id]

\* The issues the tracker may hold at the start.
InitialBugs ==
    {[i \in Group1 |-> IF i = MilestoneId THEN m ELSE IF i = "t1" THEN a ELSE b] :
        m \in [title : {"Project X", "Project Y"}, state : {"NEW"}, closed_date : {NoDate}],
        a \in [title : {"Subissue 1"}, state : {None, "ASSIGNED"},
               closed_date : {NoDate, ClosedAt}],
        b \in [title : {"Subissue 2"}, state : {None, "NEW"}, closed_date : {NoDate}]}

\* A page as the record store holds it.
StoredPage(id, datadict) == [create_handler(dict_to_page(datadict)) EXCEPT !.id = id]

InitialMsPages ==
    [i \in {MilestoneId} |-> StoredPage("page-m1", [Title |-> "Project X", Status |-> "NEW"])]

\* The task pages at the start: none, or one for t1 from an earlier run.
InitialTaskPages ==
    {<<>>} \cup
    {[i \in {"t1"} |-> StoredPage("page-t1", [Title |-> t, Status |-> st])] :
        t \in {"[task] Subissue 1", "[task] Subissue"},
        st \in {"Backlog", "Done"}}

NoTasks == [n \in Group1 \cup Group2 \cup {"body"} |-> "none"]

InitEngine ==
    /\ enDry \in BOOLEAN
    /\ enBodySync \in BOOLEAN
    /\ enBugs \in InitialBugs
    /\ enMsPages = InitialMsPages
    /\ enTaskPages \in InitialTaskPages
    /\ enStamps = [d \in Group2 |-> 0]
    /\ enRun = 1
    /\ enPc = "init"
    /\ enIssues = <<>> /\ enCollected = <<>> /\ enFetched = <<>>
    /\ enTg = NoTasks
    /\ enDesired = <<>>
    /\ enLog = <<>>
    /\ enFailures = 0
    /\ enPrev = NullObj
    /\ IdleExcept("engine")

\* A request fails: the exception of the task or of the body.
MayFail == enFailures < MaxFailures

\* A group that lets the siblings of a failed task run on.
Abort_siblings_kept(tg, t) == [tg EXCEPT ![t] = "failed"]

\* TaskGroup on the failure of task t: every unfinished task of the group
\* is cancelled, and so is the body when it is still running.
Abort(tg, t) ==
    [n \in DOMAIN tg |->
        IF n = t THEN "failed"
        ELSE IF tg[n] \in {"ready", "contents", "contents2", "running"} THEN "cancelled"
        ELSE tg[n]]

\* Task syncs scheduled for the discovered pages before any fetch.
created_by_init_eager(tg, issues) ==
    [n \in DOMAIN tg |-> IF n \in DOMAIN issues THEN "ready"
                         ELSE IF n = "body" THEN "running" ELSE tg[n]]

\* The tasks after _async_init: its own group is over, the groups of
\* synchronize have none yet, the body of synchronize runs.
created_by_init(tg, issues) == [tg EXCEPT !.body = "running"]

\* _async_init and the first lines of synchronize: the schemas are read and
\* the pages that carry an issue link are discovered.
_async_init ==
    /\ enPc = "init"
    /\ \/ /\ enIssues' = enTaskPages
          /\ enCollected' = enTaskPages
          /\ enLog' = enLog \o <<Entry("db_query", "milestones_db"), Entry("db_query", "tasks_db")>>
          /\ enTg' = created_by_init(enTg, enTaskPages)
          /\ enPc' = "milestones"
          /\ UNCHANGED enFailures
       \/ /\ MayFail
          /\ enFailures' = enFailures + 1
          /\ enPc' = "raised"
          /\ UNCHANGED <<enIssues, enCollected, enLog, enTg>>
    /\ UNCHANGED <<enDry, enBodySync, enBugs, enMsPages, enTaskPages, enStamps, enRun,
                   enFetched, enDesired, enPrev>>
    /\ Frame("engine")

\* collected_tasks[repo][id] = None for every sub-issue, collected or not.
setdefault_all_overwriting(collected, ids) ==
    [i \in DOMAIN collected \cup Range(ids) |->
        IF i \in Range(ids) THEN NullObj ELSE collected[i]]

\* collected_tasks.setdefault(repo, {}).setdefault(id, None), per sub-issue
setdefault_all(collected, ids) ==
    [i \in DOMAIN collected \cup Range(ids) |->
        IF i \in DOMAIN collected THEN collected[i] ELSE NullObj]

\* The body of the first task group, the milestones: the issues of the
\* milestone pages are fetched, their syncs scheduled and their sub-issues
\* collected.
fetch_milestones ==
    /\ enPc = "milestones"
    /\ \/ /\ enFetched' = [i \in DOMAIN enMsPages |-> enBugs[i]]
          /\ enTg' = [n \in DOMAIN enTg |-> IF n \in DOMAIN enMsPages THEN "ready" ELSE enTg[n]]
          /\ enCollected' = setdefault_all(enCollected, sub_issues[MilestoneId])
          /\ enLog' = Append(enLog, Entry("fetch", "milestones"))
          /\ enPc' = "tasks"
          /\ UNCHANGED enFailures
       \/ /\ MayFail
          /\ enFailures' = enFailures + 1
          /\ enTg' = Abort(enTg, "body")
          /\ enPc' = "join1"
          /\ UNCHANGED <<enFetched, enCollected, enLog>>
    /\ UNCHANGED <<enDry, enBodySync, enBugs, enMsPages, enTaskPages, enStamps, enRun,
                   enIssues, enDesired, enPrev>>
    /\ Frame("engine")

\* The body of the first task group, the tasks: the collected issues are
\* fetched and a sync is scheduled for each. The milestone syncs scheduled
\* before run while this fetch is awaited.
fetch_tasks ==
    /\ enPc = "tasks"
    /\ \/ /\ enFetched' = [i \in DOMAIN enFetched \cup DOMAIN enCollected |->
                              IF i \in DOMAIN enCollected THEN enBugs[i] ELSE enFetched[i]]
          /\ enTg' = [n \in DOMAIN enTg |->
                         IF n \in DOMAIN enCollected THEN "ready"
                         ELSE IF n = "body" THEN "done" ELSE enTg[n]]
          /\ enLog' = Append(enLog, Entry("fetch", "tasks"))
          /\ enPc' = "join1"
          /\ UNCHANGED enFailures
       \/ /\ MayFail
          /\ enFailures' = enFailures + 1
          /\ enTg' = Abort(enTg, "body")
          /\ enPc' = "join1"
          /\ UNCHANGED <<enFetched, enLog>>
    /\ UNCHANGED <<enDry, enBodySync, enBugs, enMsPages, enTaskPages, enStamps, enRun,
                   enIssues, enCollected, enDesired, enPrev>>
    /\ Frame("engine")

\* The failure of task t of the running group.
TaskFails(t) ==
    /\ MayFail
    /\ enFailures' = enFailures + 1
    /\ enTg' = Abort(enTg, t)
    /\ enPc' = IF enTg.body = "running" THEN "join1" ELSE enPc

\* synchronize_single_milestone: the tracker issue is updated when the page
\* asks for another one and some field is to be sent.
synchronize_single_milestone ==
    /\ enTg[MilestoneId] = "ready"
    /\ LET tracker_issue == enFetched[MilestoneId]
           new == new_issue(tracker_issue, enMsPages[MilestoneId])
           data == update_data(tracker_issue, new)
           sends == tracker_issue # new /\ ~enDry /\ data # {}
       IN \/ /\ enBugs' = IF sends
                          THEN [enBugs EXCEPT ![MilestoneId] = update_handler(@, data, new)]
                          ELSE enBugs
             /\ enLog' = IF sends THEN Append(enLog, Entry("tracker_update", MilestoneId))
                         ELSE enLog
             /\ enTg' = [enTg EXCEPT ![MilestoneId] = "done"]
             /\ UNCHANGED <<enFailures, enPc>>
          \/ /\ sends
             /\ TaskFails(MilestoneId)
             /\ UNCHANGED <<enBugs, enLog>>
    /\ UNCHANGED <<enDry, enBodySync, enMsPages, enTaskPages, enStamps, enRun,
                   enIssues, enCollected, enFetched, enDesired, enPrev>>
    /\ Frame("engine")

\* The notice on a new page even when the body follows.
contents_calls_both(page, body_sync) ==
    (IF page = NullObj THEN 1 ELSE 0) + (IF body_sync THEN 1 ELSE 0)

\* The calls of replace_page_contents in synchronize_single_task: the notice
\* on a new page without tasks_body_sync, the body with it.
contents_calls(page, body_sync) ==
    (IF page = NullObj /\ ~body_sync THEN 1 ELSE 0) + (IF body_sync THEN 1 ELSE 0)

\* A store that sends whatever the dry flag says.
page_sent_dry_blind(changed, dry) == changed = "True"

\* create_page and update_page: the request goes out for a page that is
\* new or differs, unless the store is dry.
page_sent(changed, dry) == changed = "True" /\ ~dry

\* synchronize_single_task up to its first request: the page of the issue is
\* updated when it differs, or created when there is none. The contents
\* follow for a new page and under tasks_body_sync.
synchronize_single_task(id) ==
    /\ enTg[id] = "ready"
    /\ LET tracker_issue == enFetched[id]
           page == enCollected[id]
           notion_data == _get_task_notion_data(tracker_issue, page)
           changed == IF page = NullObj THEN "True" ELSE page_diff(notion_data, page)
           sends == page_sent(changed, enDry)
           contents == IF enDry THEN 0 ELSE contents_calls(page, enBodySync)
       IN /\ enDesired' = Put(enDesired, id, notion_data.Status)
          /\ \/ /\ changed # "KeyError"
                /\ enTaskPages' =
                      IF ~sends THEN enTaskPages
                      ELSE IF page = NullObj
                      THEN Put(enTaskPages, id, StoredPage("page-" \o id, notion_data))
                      ELSE [enTaskPages EXCEPT ![id] = pages_update(@, dict_to_page(notion_data))]
                /\ enLog' =
                      IF ~sends THEN enLog
                      ELSE Append(enLog, Entry(IF page = NullObj THEN "page_create"
                                               ELSE "page_update", id))
                /\ enTg' = [enTg EXCEPT ![id] = IF contents = 2 THEN "contents2"
                                                ELSE IF contents = 1 THEN "contents"
                                                ELSE "done"]
                /\ UNCHANGED <<enFailures, enPc>>
             \/ /\ sends \/ changed = "KeyError"
                /\ TaskFails(id)
                /\ UNCHANGED <<enTaskPages, enLog>>
    /\ UNCHANGED <<enDry, enBodySync, enBugs, enMsPages, enStamps, enRun,
                   enIssues, enCollected, enFetched, enPrev>>
    /\ Frame("engine")

\* replace_page_contents at the end of synchronize_single_task: the blocks
\* of the page are listed and the new ones appended in one request.
replace_page_contents(id) ==
    /\ enTg[id] \in {"contents", "contents2"}
    /\ \/ /\ enLog' = enLog \o <<Entry("blocks_list", id), Entry("blocks_append", id)>>
          /\ enTg' = [enTg EXCEPT ![id] = IF @ = "contents2" THEN "contents" ELSE "done"]
          /\ UNCHANGED <<enFailures, enPc>>
       \/ /\ TaskFails(id)
          /\ UNCHANGED enLog
    /\ UNCHANGED <<enDry, enBodySync, enBugs, enMsPages, enTaskPages, enStamps, enRun,
                   enIssues, enCollected, enFetched, enDesired, enPrev>>
    /\ Frame("engine")

\* The task group waiting at the end of its block without a look at the tasks.
group_finished_eager(tg, group) == TRUE

\* The end of an `async with asyncio.TaskGroup()` block: every task of the
\* group has finished.
group_finished(tg, group) == \A n \in group : tg[n] \in Finished

\* A task group that swallows what its tasks raised.
group_raises_never(tg, group) == FALSE

\* TaskGroup.__aexit__: the group raises when one of its tasks or its body
\* raised.
group_raises(tg, group) == \E n \in group \cup {"body"} : tg[n] = "failed"

\* The end of the first task group: it raises what its tasks or its body
\* raised; else the two timestamp tasks of the second group are scheduled.
TaskGroupExit1 ==
    /\ enPc = "join1"
    /\ group_finished(enTg, Group1)
    /\ IF group_raises(enTg, Group1)
       THEN /\ enPc' = "raised"
            /\ UNCHANGED enTg
       ELSE /\ enPc' = "join2"
            /\ enTg' = [n \in DOMAIN enTg |-> IF n \in Group2 THEN "ready" ELSE enTg[n]]
    /\ UNCHANGED <<enDry, enBodySync, enBugs, enMsPages, enTaskPages, enStamps, enRun,
                   enIssues, enCollected, enFetched, enDesired, enLog, enFailures, enPrev>>
    /\ Frame("engine")

\* _update_timestamp: nothing under dry; else the description is read and
\* written back with the stamp of this run.
_update_timestamp(database) ==
    /\ enTg[database] = "ready"
    /\ \/ /\ enStamps' = IF enDry THEN enStamps ELSE [enStamps EXCEPT ![database] = enRun]
          /\ enLog' = IF enDry THEN enLog
                      ELSE enLog \o <<Entry("db_info", database), Entry("db_update", database)>>
          /\ enTg' = [enTg EXCEPT ![database] = "done"]
          /\ UNCHANGED <<enFailures, enPc>>
       \/ /\ ~enDry
          /\ TaskFails(database)
          /\ UNCHANGED <<enStamps, enLog>>
    /\ UNCHANGED <<enDry, enBodySync, enBugs, enMsPages, enTaskPages, enRun,
                   enIssues, enCollected, enFetched, enDesired, enPrev>>
    /\ Frame("engine")

\* The end of the second task group and of synchronize.
TaskGroupExit2 ==
    /\ enPc = "join2"
    /\ group_finished(enTg, Group2)
    /\ enPc' = IF \E n \in Group2 : enTg[n] = "failed" THEN "raised" ELSE "done"
    /\ UNCHANGED <<enDry, enBodySync, enBugs, enMsPages, enTaskPages, enStamps, enRun,
                   enIssues, enCollected, enFetched, enTg, enDesired, enLog, enFailures, enPrev>>
    /\ Frame("engine")

\* The engine is run again; the tracker and the record store are as the
\* run before left them.
NextRun ==
    /\ enPc \in {"done", "raised"}
    /\ enRun < MaxRuns
    /\ enPrev' = [ok |-> enPc = "done",
                  mutated |-> \E k \in DOMAIN enLog : enLog[k].op \in Mutations]
    /\ enRun' = enRun + 1
    /\ enPc' = "init"
    /\ enIssues' = <<>> /\ enCollected' = <<>> /\ enFetched' = <<>>
    /\ enTg' = NoTasks
    /\ enDesired' = <<>>
    /\ enLog' = <<>>
    /\ UNCHANGED <<enDry, enBodySync, enBugs, enMsPages, enTaskPages, enStamps, enFailures>>
    /\ Frame("engine")

Next ==
    \/ _async_init
    \/ fetch_milestones
    \/ fetch_tasks
    \/ synchronize_single_milestone
    \/ \E id \in TaskIds : synchronize_single_task(id)
    \/ \E id \in TaskIds : replace_page_contents(id)
    \/ TaskGroupExit1
    \/ \E database \in Group2 : _update_timestamp(database)
    \/ TaskGroupExit2
    \/ NextRun

Spec == InitEngine /\ [][Next]_vars

(* ------------------------- claims on the engine ------------------------ *)

Count(op, id) == Len(SelectSeq(enLog, LAMBDA e : e = Entry(op, id)))

\* The fetch that brings the issue id.
FetchOf(id) == Entry("fetch", IF id = MilestoneId THEN "milestones" ELSE "tasks")

\* C1 as stated: a run after a completed run, with nothing changed in
\* between, issues read and list calls only.
C1_SecondRunReadsOnly ==
    (enRun >= 2 /\ enPrev.ok) => \A k \in DOMAIN enLog : enLog[k].op \in Reads

\* C1 amended: a run after a completed run, with nothing changed in between,
\* creates no page, updates no page and updates no tracker issue; what it
\* still writes is the description of each collection, for the timestamp,
\* and under tasks_body_sync the contents of the task pages.
C1_SecondRunAmended ==
    (enRun >= 2 /\ enPrev.ok) =>
        /\ \A k \in DOMAIN enLog :
              enLog[k].op \in Reads \cup {"db_update"} \cup
                              (IF enBodySync THEN {"blocks_append"} ELSE {})
        /\ (enPc = "done" /\ ~enDry) => \A d \in Group2 : Count("db_update", d) = 1

\* The second run after a first one that wrote pages or issues: it is over,
\* and all it wrote are the two descriptions.
C1_Witness ==
    /\ enRun = 2 /\ enPc = "done" /\ ~enDry /\ ~enBodySync
    /\ enPrev.ok /\ enPrev.mutated
    /\ \A d \in Group2 : Count("db_update", d) = 1
    /\ \A k \in DOMAIN enLog : enLog[k].op \notin Mutations

\* The case of C6 for the task of issue id: the old page has a closed
\* status, the issue no state and no closed date.
ClosedPageOpenIssue(id) ==
    /\ id \in DOMAIN enDesired
    /\ enCollected[id] # NullObj
    /\ enCollected[id].properties.Status.status.name \in Range(notion_closed_states)
    /\ ~Truthy(enFetched[id].state)
    /\ enFetched[id].closed_date = NoDate

\* C6: when the existing task page has a status of the closed states and the
\* issue has no state and no closed date, the status computed for the page
\* is the default open state.
C6_FlapGuard ==
    \A id \in TaskIds :
        ClosedPageOpenIssue(id) => enDesired[id] = notion_default_open_state

\* A page that was Done was written back as Backlog for an open issue
\* without a state.
C6_Witness ==
    /\ ClosedPageOpenIssue("t1") /\ enTg["t1"] = "done" /\ ~enDry
    /\ enDesired["t1"] = "Backlog"
    /\ enTaskPages["t1"].properties.Status.status.name = "Backlog"

\* The task of issue id had no page to start from.
NoPageYet(id) == id \in DOMAIN enCollected /\ enCollected[id] = NullObj

\* C7: for an issue no task page references, the engine (not dry) sends
\* exactly one create to the tasks collection, followed by exactly one
\* append of contents to the new page.
C7_OneCreateOneAppend ==
    \A id \in TaskIds :
        NoPageYet(id) =>
            /\ Count("page_create", id) <= 1
            /\ Count("blocks_append", id) <= Count("page_create", id)
            /\ Count("page_update", id) = 0
            /\ (enTg[id] = "done" /\ ~enDry) =>
                  /\ Count("page_create", id) = 1
                  /\ Count("blocks_append", id) = 1
                  /\ \E i, j \in DOMAIN enLog :
                        /\ i < j
                        /\ enLog[i] = Entry("page_create", id)
                        /\ enLog[j] = Entry("blocks_append", id)

\* The sync of a new task under tasks_body_sync is over: one create, then
\* one append.
C7_Witness ==
    /\ NoPageYet("t2") /\ enTg["t2"] = "done" /\ ~enDry /\ enBodySync
    /\ Count("page_create", "t2") = 1 /\ Count("blocks_append", "t2") = 1

Unfinished == {"ready", "contents", "contents2", "running"}

C10_MutationBeforeStamp ==
    \A k \in DOMAIN enLog :
        enLog[k].op = "db_update" =>
            /\ \A n \in Group1 \cup {"body"} : enTg[n] \in {"none", "done"}
            /\ \A j \in DOMAIN enLog : enLog[j].op \in Mutations => j < k

\* Both collections are stamped in a run that created a page and appended
\* its contents before.
C10_Witness ==
    /\ enPc = "done"
    /\ \A d \in Group2 : Count("db_update", d) = 1 /\ enStamps[d] = enRun
    /\ \E id \in TaskIds :
          Count("page_create", id) = 1 /\ Count("blocks_append", id) = 1

\* C15: with the dry-run flag set a run sends no mutating call to the
\* record store (page create, page update, content replacement,
\* description update) and none to the tracker, and leaves both as they
\* are, while its reads go on.
C15_DryNoMutation ==
    /\ [](enDry => /\ \A k \in DOMAIN enLog : enLog[k].op \in Reads
                   /\ \A d \in DOMAIN enStamps : enStamps[d] = 0)
    /\ [][enDry => UNCHANGED <<enBugs, enMsPages, enTaskPages, enStamps>>]_vars

\* A dry run is over: it queried, fetched, and passed an issue without a
\* page and a milestone whose issue differs from its page.
C15_Witness ==
    /\ enDry /\ enPc = "done" /\ enRun = 1
    /\ \E id \in TaskIds : NoPageYet(id) /\ enTg[id] = "done"
    /\ enFetched[MilestoneId] # new_issue(enFetched[MilestoneId], enMsPages[MilestoneId])
    /\ \E k \in DOMAIN enLog : enLog[k] = Entry("fetch", "tasks")
    /\ \E k \in DOMAIN enLog : enLog[k] = Entry("db_query", "tasks_db")

(* ------- the retrying clients and the rate-limit gate (util.py) -------- *)

\* Failures the server may answer with to one caller on its own, and to
\* two callers that share the gate.
MaxFaults == 11
MaxSharedFaults == 2

\* AsyncRetryingClient.MAX_RETRY, also the default of recur in RetryingClient
MAX_RETRY == 10
\* AsyncRetryingClient.RETRY_TIMEOUT, the literal 10 of the other sleeps
RETRY_TIMEOUT == 10
\* random.randint(1, 10) of wait_open, random.randint(10, 20) of a 409
JitterSeconds == 1..10
ConflictSeconds == 10..20

\* What the server answers: a status, the Retry-After header and the body
\* as the Bugzilla client reads it. Status 0 stands for no response at all,
\* the request ended in a transport error.
Response(status, retry_after, body) ==
    [status |-> status, retry_after |-> retry_after, body |-> body]
TransportError == Response(0, None, "")
Success == Response(200, None, "ok")
Failures(client) ==
    {TransportError, Response(404, None, ""), Response(409, None, ""),
     Response(429, None, ""), Response(429, "3", ""), Response(500, None, "")}
    \cup (IF client = "bugzilla"
          THEN {Response(200, None, "error"), Response(200, None, "garbage")}
          ELSE {})

\* int() of a header value
int(str) == CASE str = "1" -> 1 [] str = "3" -> 3 [] str = "10" -> 10

\* int(response.headers.get("Retry-After", 10))
retry_after_seconds(response) ==
    IF response.retry_after = None THEN 10 ELSE int(response.retry_after)

\* raise_for_status left out.
raised_by_send_unraised(autoraise, r) ==
    IF r = TransportError THEN "TransportError" ELSE ""

\* The exception the try block of send ends with, "" for none.
raised_by_send(autoraise, r) ==
    IF r = TransportError THEN "TransportError"
    ELSE IF autoraise /\ r.status >= 400 THEN "HTTPStatusError"
    ELSE ""

\* Every answer taken for a failure worth a retry.
_engage_retry_all_statuses(response, exception) ==
    IF response.status = 409 THEN ConflictSeconds
    ELSE IF response.status = 429 THEN {retry_after_seconds(response)}
    ELSE {RETRY_TIMEOUT}

\* A 404 taken for a failure worth a retry.
_engage_retry_any_4xx(response, exception) ==
    IF response.status = 409 THEN ConflictSeconds
    ELSE IF response.status = 429 THEN {retry_after_seconds(response)}
    ELSE IF response.status \div 100 \in {4, 5} THEN {RETRY_TIMEOUT}
    ELSE IF exception # "" /\ exception # "HTTPStatusError" THEN {RETRY_TIMEOUT}
    ELSE {}

\* AsyncRetryingClient._engage_retry: the seconds the gate may be engaged
\* for, the empty set where it returns False. The response is the local
\* of send, the exception "" where none is passed.
_engage_retry(response, exception) ==
    IF response.status = 409 THEN ConflictSeconds
    ELSE IF response.status = 429 THEN {retry_after_seconds(response)}
    ELSE IF response.status \div 100 = 5 THEN {RETRY_TIMEOUT}
    ELSE IF exception # "" /\ exception # "HTTPStatusError" THEN {RETRY_TIMEOUT}
    ELSE {}

\* A gate that takes every engage for a new window.
window_over_always(until) == TRUE

\* now >= self._until, with until the seconds left to _until
window_over(until) == until = 0

\* RateLimitGate.engage, from time.monotonic() to the end of the lock: no
\* await of it suspends, so no other task runs in between.
engage(gate, seconds) ==
    IF window_over(gate.until)
    THEN [event |-> FALSE, until |-> seconds,
          unlocks |-> gate.unlocks \cup {seconds}]
    ELSE gate

\* A wait_open that waits for the next set() whatever the event is.
wait_open_for_next_set(gate) == "waiting"

\* The first test of wait_open: is_set() and the sleep(0) after it, or the
\* wait for the event.
wait_open(gate) == IF gate.event THEN "yielded" ELSE "waiting"

\* The locals of a caller that has not called send yet.
NewCaller ==
    [pc |-> "start", waited |-> FALSE, timer |-> 0, recur |-> 0, outer |-> 0,
     response |-> NullObj, attempts |-> 0, applied |-> 0, first |-> -1,
     last |-> NullObj, err |-> "", hold |-> 0, backoff |-> 0,
     early |-> FALSE, short |-> FALSE, closed |-> FALSE]

InitTransport ==
    /\ \/ /\ trCaller = [c \in {"c1"} |-> NewCaller]
          /\ trClient \in {"notion", "bugzilla", "sync"}
          /\ trAuto \in (IF trClient = "bugzilla" THEN {TRUE} ELSE BOOLEAN)
          /\ trFaults = MaxFaults
       \/ /\ trCaller = [c \in {"c1", "c2"} |-> NewCaller]
          /\ trClient = "notion"
          /\ trAuto = FALSE
          /\ trFaults = MaxSharedFaults
    /\ trGate = [event |-> TRUE, until |-> 0, unlocks |-> {}]
    /\ trEngages = [windows |-> 0, ignored |-> 0]
    /\ IdleExcept("transport")

\* The request goes out: super().send(request). What the caller skipped
\* on the way is kept: a Retry-After or a backoff still running, a gate
\* still closed.
Issue(k, gate) ==
    [k EXCEPT !.pc = "inflight", !.attempts = @ + 1,
              !.early = @ \/ k.hold > 0,
              !.short = @ \/ k.backoff > 0,
              !.closed = @ \/ ~gate.event]

\* The top of the loop of send: wait_open starts.
Loop(k, gate) == [k EXCEPT !.waited = FALSE, !.pc = wait_open(gate)]

Raise(k, e) == [k EXCEPT !.pc = "raised", !.err = e]

\* BugzillaAsyncRetryingClient.send once super().send has returned: a body
\* that is no JSON or that carries an error is slept on and sent again
\* with one retry less, or raised when none is left.
bugzilla_send(k) ==
    IF k.last.body \in {"garbage", "error"}
    THEN IF k.outer <= 0
         THEN Raise(k, IF k.last.body = "garbage" THEN "JSONDecodeError"
                       ELSE "Bugzilla Error")
         ELSE [k EXCEPT !.pc = "sleep", !.timer = RETRY_TIMEOUT, !.outer = @ - 1]
    ELSE [k EXCEPT !.pc = "returned"]

\* return response
Return(k, client) ==
    IF client = "bugzilla" THEN bugzilla_send(k) ELSE [k EXCEPT !.pc = "returned"]

\* The caller with the answer r in hand.
Received(k, r) ==
    [k EXCEPT !.last = r,
              !.first = IF @ = -1 THEN r.status ELSE @,
              !.applied = @ + (IF r = Success THEN 1 ELSE 0),
              !.hold = IF r.status = 429 /\ k.recur > 0
                       THEN retry_after_seconds(r) ELSE 0,
              !.backoff = IF r = TransportError /\ k.recur > 0
                          THEN RETRY_TIMEOUT ELSE 0,
              !.response = IF r = TransportError THEN @ ELSE r]

\* send is called: recur takes its default; the asynchronous clients wait
\* for the gate, the synchronous one sends.
send(c) ==
    /\ trCaller[c].pc = "start"
    /\ LET k == [trCaller[c] EXCEPT !.recur = MAX_RETRY, !.outer = MAX_RETRY]
       IN trCaller' = [trCaller EXCEPT ![c] =
              IF trClient = "sync" THEN Issue(k, trGate) ELSE Loop(k, trGate)]
    /\ UNCHANGED <<trClient, trAuto, trFaults, trGate, trEngages>>
    /\ Frame("transport")

\* wait_open after its sleep(0): the event is tested again; a caller that
\* had to wait sleeps random.randint(1, 10) seconds more, the others send.
wait_open_resume(c) ==
    /\ trCaller[c].pc = "yielded"
    /\ LET k == trCaller[c]
       IN IF ~trGate.event
          THEN trCaller' = [trCaller EXCEPT ![c].pc = "waiting"]
          ELSE IF k.waited
          THEN \E j \in JitterSeconds :
                  trCaller' = [trCaller EXCEPT ![c].pc = "jitter", ![c].timer = j]
          ELSE trCaller' = [trCaller EXCEPT ![c] = Issue(k, trGate)]
    /\ UNCHANGED <<trClient, trAuto, trFaults, trGate, trEngages>>
    /\ Frame("transport")

\* wait_open after self._event.wait(): waited is set and the loop tests
\* the event again.
wait_open_woken(c) ==
    /\ trCaller[c].pc = "woken"
    /\ trCaller' = [trCaller EXCEPT ![c].waited = TRUE, ![c].pc = wait_open(trGate)]
    /\ UNCHANGED <<trClient, trAuto, trFaults, trGate, trEngages>>
    /\ Frame("transport")

\* The end of the sleep that closes wait_open: the request goes out.
wait_open_return(c) ==
    /\ trCaller[c].pc = "jitter"
    /\ trCaller[c].timer = 0
    /\ trCaller' = [trCaller EXCEPT ![c] = Issue(@, trGate)]
    /\ UNCHANGED <<trClient, trAuto, trFaults, trGate, trEngages>>
    /\ Frame("transport")

\* The end of time.sleep in RetryingClient.send and of asyncio.sleep in
\* BugzillaAsyncRetryingClient.send: the recursive send.
sleep_return(c) ==
    /\ trCaller[c].pc = "sleep"
    /\ trCaller[c].timer = 0
    /\ LET k == trCaller[c]
       IN trCaller' = [trCaller EXCEPT ![c] =
              IF trClient = "sync" THEN Issue(k, trGate)
              ELSE Loop([k EXCEPT !.recur = k.outer, !.response = NullObj], trGate)]
    /\ UNCHANGED <<trClient, trAuto, trFaults, trGate, trEngages>>
    /\ Frame("transport")

\* The failures answered to callers that share the gate: rate limiting.
SharedFailures == {Response(429, None, ""), Response(429, "3", "")}

\* The answers the server may give now.
Answers ==
    {Success} \cup
    (IF trFaults = 0 THEN {}
     ELSE IF Cardinality(DOMAIN trCaller) > 1 THEN SharedFailures
     ELSE Failures(trClient))

\* _engage_retry has engaged the gate for s seconds and returned True:
\* recur -= 1; continue
Retried(c, k, s) ==
    LET gate == engage(trGate, s)
    IN /\ trGate' = gate
       /\ trEngages' = IF gate = trGate
                       THEN [trEngages EXCEPT !.ignored = @ + 1]
                       ELSE [trEngages EXCEPT !.windows = @ + 1]
       /\ trCaller' = [trCaller EXCEPT ![c] = Loop([k EXCEPT !.recur = @ - 1], gate)]

Ended(c, k) ==
    /\ trCaller' = [trCaller EXCEPT ![c] = k]
    /\ UNCHANGED <<trGate, trEngages>>

\* AsyncRetryingClient.send from the answer to its request up to the next
\* request, return or raise.
async_send_response(c) ==
    /\ trClient \in {"notion", "bugzilla"}
    /\ trCaller[c].pc = "inflight"
    /\ \E r \in Answers :
          LET k == Received(trCaller[c], r)
              e == raised_by_send(trAuto, r)
              seconds == IF k.response = NullObj THEN {}
                         ELSE _engage_retry(k.response, e)
          IN /\ trFaults' = IF r = Success THEN trFaults ELSE trFaults - 1
             /\ IF e # ""
                THEN IF trCaller[c].recur <= 0 THEN Ended(c, Raise(k, e))
                     ELSE IF k.response = NullObj
                          THEN Ended(c, Raise(k, "UnboundLocalError"))
                     ELSE IF seconds = {} THEN Ended(c, Raise(k, e))
                     ELSE \E sec \in seconds : Retried(c, k, sec)
                ELSE IF ~trAuto /\ trCaller[c].recur > 0 /\ seconds # {}
                     THEN \E sec \in seconds : Retried(c, k, sec)
                     ELSE Ended(c, Return(k, trClient))
    /\ UNCHANGED <<trClient, trAuto>>
    /\ Frame("transport")

\* RetryingClient.send from the answer to its request up to the sleep
\* before the next one, the return or the raise.
sync_send_response(c) ==
    /\ trClient = "sync"
    /\ trCaller[c].pc = "inflight"
    /\ \E r \in Answers :
          LET k == Received(trCaller[c], r)
              e == raised_by_send(trAuto, r)
              Sleep(sec) == [k EXCEPT !.pc = "sleep", !.timer = sec, !.recur = @ - 1]
          IN /\ trFaults' = IF r = Success THEN trFaults ELSE trFaults - 1
             /\ trCaller' = [trCaller EXCEPT ![c] =
                   IF e # ""
                   THEN IF k.recur <= 0 THEN Raise(k, e)
                        ELSE IF e = "HTTPStatusError" /\ r.status \div 100 # 5
                                /\ r.status # 409
                        THEN Raise(k, e)
                        ELSE Sleep(RETRY_TIMEOUT)
                   ELSE IF r.status = 429 /\ k.recur > 0
                        THEN Sleep(retry_after_seconds(r))
                        ELSE Return(k, trClient)]
    /\ UNCHANGED <<trClient, trAuto, trGate, trEngages>>
    /\ Frame("transport")

\* An _unlock task past its sleep: the event is set, which wakes whoever
\* waits for it.
_unlock ==
    /\ trGate # NullObj
    /\ 0 \in trGate.unlocks
    /\ trGate' = [trGate EXCEPT !.event = TRUE, !.unlocks = @ \ {0}]
    /\ trCaller' = [c \in DOMAIN trCaller |->
                       IF trCaller[c].pc = "waiting"
                       THEN [trCaller[c] EXCEPT !.pc = "woken"] ELSE trCaller[c]]
    /\ UNCHANGED <<trClient, trAuto, trFaults, trEngages>>
    /\ Frame("transport")

Dec(n) == IF n > 0 THEN n - 1 ELSE 0

\* A second passes on the monotonic clock; a sleep that is over may still
\* wait for its turn on the event loop.
Tick ==
    /\ trGate # NullObj
    /\ \/ trGate.until > 0
       \/ \E w \in trGate.unlocks : w > 0
       \/ \E c \in DOMAIN trCaller :
             trCaller[c].timer > 0 \/ trCaller[c].hold > 0 \/ trCaller[c].backoff > 0
    /\ trGate' = [trGate EXCEPT !.until = Dec(@), !.unlocks = {Dec(w) : w \in @}]
    /\ trCaller' = [c \in DOMAIN trCaller |->
                       [trCaller[c] EXCEPT !.timer = Dec(@), !.hold = Dec(@),
                                           !.backoff = Dec(@)]]
    /\ UNCHANGED <<trClient, trAuto, trFaults, trEngages>>
    /\ Frame("transport")

NextTransport ==
    \/ \E c \in DOMAIN trCaller : send(c)
    \/ \E c \in DOMAIN trCaller : wait_open_resume(c)
    \/ \E c \in DOMAIN trCaller : wait_open_woken(c)
    \/ \E c \in DOMAIN trCaller : wait_open_return(c)
    \/ \E c \in DOMAIN trCaller : sleep_return(c)
    \/ \E c \in DOMAIN trCaller : async_send_response(c)
    \/ \E c \in DOMAIN trCaller : sync_send_response(c)
    \/ _unlock
    \/ Tick

SpecTransport == InitTransport /\ [][NextTransport]_vars

(* ----------------- claims on the retrying clients ---------------------- *)

Over(k) == k.pc \in {"returned", "raised"}

\* C11: when a request is answered 429 and its retry succeeds, exactly two
\* requests were sent for it, the rejected one and the retry, and the
\* update took effect once; no call makes it take effect twice.
C11_OneRetryOneEffect ==
    \A c \in DOMAIN trCaller :
        LET k == trCaller[c]
        IN /\ k.applied <= 1
           /\ (k.first = 429 /\ k.last = Success /\ k.recur = MAX_RETRY - 1
                  /\ k.outer = MAX_RETRY)
                 => (k.attempts = 2 /\ k.applied = 1 /\ k.pc = "returned")

\* A call that was answered 429 and then 200 has returned.
C11_Witness ==
    \E c \in DOMAIN trCaller :
        LET k == trCaller[c]
        IN k.first = 429 /\ k.last = Success /\ k.attempts = 2
           /\ k.applied = 1 /\ k.pc = "returned"

\* C12: a request answered 429 with Retry-After N (10 without the header)
\* is not sent again before N seconds have passed since that answer.
C12_RetryAfterHonoured ==
    \A c \in DOMAIN trCaller : ~trCaller[c].early

\* C13: no caller starts a request while the shared gate is closed.
C13_NoSendWhileClosed ==
    \A c \in DOMAIN trCaller : ~trCaller[c].closed

\* C14: engage calls run one at a time, and an engage that arrives while a
\* window is still active (before _until) starts no second window and
\* schedules no second reopen: the gate is left as it is. A window that is
\* started adds one reopen.
C14_OneWindowAtATime ==
    [][/\ trGate.until > 0 =>
             /\ Cardinality(trGate'.unlocks) <= Cardinality(trGate.unlocks)
             /\ trGate'.until \in {trGate.until, trGate.until - 1}
             /\ trGate'.event \/ ~trGate.event
             /\ trEngages'.windows = trEngages.windows
       /\ trEngages'.windows # trEngages.windows =>
             /\ trEngages'.windows = trEngages.windows + 1
             /\ trGate.until = 0
             /\ trGate'.unlocks = trGate.unlocks \cup {trGate'.until}
       /\ trEngages'.windows + trEngages'.ignored
             <= trEngages.windows + trEngages.ignored + 1]_vars

\* An engage was passed over: one window is active, one reopen is due.
C14_Witness ==
    /\ trGate # NullObj
    /\ trEngages.windows = 1 /\ trEngages.ignored = 1
    /\ trGate.until > 0 /\ ~trGate.event
    /\ Cardinality(trGate.unlocks) = 1

\* C16: one logical request is attempted at most 1 + 10 times, whatever
\* the answers.
C16_AtMostElevenAttempts ==
    \A c \in DOMAIN trCaller : trCaller[c].attempts <= 1 + MAX_RETRY

\* The error send raises for the answer r.
ErrorOf(r) ==
    IF r = TransportError THEN "TransportError"
    ELSE IF r.body = "garbage" THEN "JSONDecodeError"
    ELSE IF r.body = "error" THEN "Bugzilla Error"
    ELSE "HTTPStatusError"

\* No retry is left for the failure the call met last.
Exhausted(k) ==
    /\ k.last # NullObj /\ k.last # Success
    /\ IF k.last.status = 200 THEN k.outer = 0
       ELSE k.recur = 0 /\ (k.last = TransportError \/ k.last.status # 404)

C18_Other4xxNotRetried ==
    /\ [](\A c \in DOMAIN trCaller :
             LET k == trCaller[c]
             IN /\ (k.last # NullObj /\ k.last.status = 404) =>
                      /\ Over(k)
                      /\ IF trAuto THEN k.pc = "raised" /\ k.err = "HTTPStatusError"
                         ELSE k.pc = "returned"
                /\ k.first = 404 => k.attempts = 1 /\ k.recur = MAX_RETRY)
    /\ [][\A c \in DOMAIN trCaller :
             (trCaller[c].pc = "inflight" /\ trCaller'[c].pc # "inflight"
                 /\ trCaller'[c].last.status = 404)
                => (trGate' = trGate /\ trEngages' = trEngages
                    /\ trCaller'[c].attempts = trCaller[c].attempts)]_vars

\* The first answer was 404 and the call raised it with the gate open as
\* before.
C18_Witness ==
    /\ trGate # NullObj
    /\ trGate.event /\ trEngages.windows = 0
    /\ \E c \in DOMAIN trCaller :
          trCaller[c].first = 404 /\ trCaller[c].pc = "raised"
          /\ trCaller[c].attempts = 1

\* C19: a transport error on any attempt, the first included, is retried
\* while budget remains, and not before the backoff of 10 seconds.
C19_TransportErrorRetried ==
    \A c \in DOMAIN trCaller :
        LET k == trCaller[c]
        IN /\ (k.pc = "raised" /\ k.last = TransportError) => k.recur = 0
           /\ ~k.short

(* -------- GitHub.get_issues_by_number (libs/project_sync/github.py) ---- *)

\* The most issues asked for in one call.
MaxIssues == 5

\* chunk_size = 100
InitialChunkSize == 100

Min(a, b) == IF a < b THEN a ELSE b

\* A chunk size that a timeout leaves as it is.
next_chunk_size_same(chunk_size) == chunk_size

\* chunk_size // 2
next_chunk_size(chunk_size) == chunk_size \div 2

InitChunk ==
    /\ ghLen \in 0..MaxIssues
    /\ ghI = 0 /\ ghChunk = 0 /\ ghRes = {}
    /\ ghQueries = 0 /\ ghTimeouts = 0 /\ ghPc = "start"
    /\ IdleExcept("chunk")

\* The head of get_issues_by_number: nothing to ask for, or the loop starts
\* at position 0 with the chunk size 100.
get_issues_by_number ==
    /\ ghPc = "start"
    /\ IF ghLen = 0
       THEN ghPc' = "returned" /\ UNCHANGED <<ghI, ghChunk>>
       ELSE ghPc' = "loop" /\ ghI' = 0 /\ ghChunk' = InitialChunkSize
    /\ UNCHANGED <<ghLen, ghRes, ghQueries, ghTimeouts>>
    /\ Frame("chunk")

\* One pass of the loop whose query is answered: the issues of the chunk
\* are parsed into res and i moves on by the chunk size.
query_answered ==
    /\ ghPc = "loop" /\ ghI < ghLen
    /\ ghRes' = ghRes \cup ((ghI + 1)..Min(ghI + ghChunk, ghLen))
    /\ ghI' = ghI + ghChunk
    /\ ghQueries' = ghQueries + 1
    /\ ghPc' = IF ghI' < ghLen THEN "loop" ELSE "returned"
    /\ UNCHANGED <<ghLen, ghChunk, ghTimeouts>>
    /\ Frame("chunk")

\* One pass whose query fails with "Timeout on validation of query": the
\* chunk size is halved and the pass repeated, or the error raised at 1.
query_timeout ==
    /\ ghPc = "loop" /\ ghI < ghLen
    /\ ghQueries' = ghQueries + 1
    /\ ghTimeouts' = ghTimeouts + 1
    /\ IF ghChunk > 1
       THEN ghChunk' = next_chunk_size(ghChunk) /\ ghPc' = "loop"
       ELSE ghPc' = "raised-timeout" /\ UNCHANGED ghChunk
    /\ UNCHANGED <<ghLen, ghI, ghRes>>
    /\ Frame("chunk")

\* One pass whose query fails with other GraphQLErrors: raise e
query_error ==
    /\ ghPc = "loop" /\ ghI < ghLen
    /\ ghQueries' = ghQueries + 1
    /\ ghPc' = "raised-other"
    /\ UNCHANGED <<ghLen, ghI, ghChunk, ghRes, ghTimeouts>>
    /\ Frame("chunk")

NextChunk ==
    \/ get_issues_by_number
    \/ query_answered
    \/ query_timeout
    \/ query_error

\* The call keeps running: it is one synchronous loop.
SpecChunk == InitChunk /\ [][NextChunk]_vars /\ WF_vars(NextChunk)

\* C20: a validation timeout halves the chunk size and the query is sent
\* again from the same position; at chunk size 1 a further validation
\* timeout is raised to the caller; the fetch always ends.
C20_HalvesAndTerminates ==
    /\ [][ghTimeouts' # ghTimeouts =>
             IF ghChunk > 1
             THEN ghChunk' = ghChunk \div 2 /\ ghI' = ghI /\ ghRes' = ghRes
                  /\ ghPc' = "loop"
             ELSE ghPc' = "raised-timeout"]_vars
    /\ [](ghPc = "raised-timeout" => ghChunk = 1)
    /\ <>(ghPc \in {"returned", "raised-timeout", "raised-other"})

\* The chunk size came down to 1, one issue was fetched and the next
\* timeout was raised.
C20_Witness ==
    /\ ghPc = "raised-timeout" /\ ghChunk = 1 /\ ghTimeouts = 7
    /\ ghI = 1 /\ ghRes = {1}

(* ----------- NotionDatabase.get_all_pages (libs/notion_data.py) -------- *)

\* The most requests one listing is followed for.
MaxRequests == 4

\* The cursors the store hands out, and the records it answers with for
\* the cursor a request starts at.
Cursors == {"a", "b", "c"}
results_at(start_cursor) ==
    CASE start_cursor = None -> <<1, 2>>
      [] start_cursor = "a" -> <<3, 4>>
      [] start_cursor = "b" -> <<5>>
      [] start_cursor = "c" -> <<6>>

\* A listing that keeps the last response only.
extend_last_only(pages, results) == results

\* pages.extend(response["results"])
extend(pages, results) == pages \o results

InitPaging ==
    /\ paCursor = None /\ paPages = <<>> /\ paHist = <<>>
    /\ paRequests = 0 /\ paPc = "loop"
    /\ IdleExcept("paging")

\* One pass of the loop of get_all_pages: the query from the cursor, the
\* results appended, the next cursor taken from the response, and the
\* break on None. The store is free in the cursor it answers with.
get_all_pages ==
    /\ paPc = "loop"
    /\ paRequests < MaxRequests
    /\ \E next_cursor \in Cursors \cup {None} :
          /\ paPages' = extend(paPages, results_at(paCursor))
          /\ paCursor' = next_cursor
          /\ paHist' = Append(paHist, next_cursor)
          /\ paPc' = IF next_cursor = None THEN "returned" ELSE "loop"
    /\ paRequests' = paRequests + 1
    /\ Frame("paging")

NextPaging == get_all_pages

SpecPaging == InitPaging /\ [][NextPaging]_vars

\* C21: the listing follows the cursors until a null cursor: with the
\* cursors "a", "b", null every record of the three pages is returned
\* exactly once, in three requests; with a null cursor in the first
\* response no second request is made.
C21_FollowsCursors ==
    /\ paRequests = Len(paHist)
    /\ paPc \in {"returned", "idle"} <=> (paHist # <<>> /\ paHist[Len(paHist)] = None)
    /\ paHist = <<"a", "b", None>> =>
          (paPc = "returned" /\ paRequests = 3 /\ paPages = <<1, 2, 3, 4, 5>>)
    /\ (paHist # <<>> /\ paHist[1] = None) =>
          (paPc = "returned" /\ paRequests = 1 /\ paPages = <<1, 2>>)

\* The listing over the cursors "a", "b", null has returned.
C21_Witness ==
    paPc = "returned" /\ paHist = <<"a", "b", None>> /\ paPages = <<1, 2, 3, 4, 5>>

\* C22: when a response answers with the cursor of the response before
\* it, the listing stops: no further request follows.
C22_RepeatedCursorStops ==
    \A i \in 2..Len(paHist) : paHist[i] = paHist[i - 1] => paRequests <= i

(* ------- update_milestone_issue, the whole call (both trackers) -------- *)

\* The states an issue takes on each tracker.
IssueStates(tracker) ==
    IF tracker = "github" THEN {notion_default_open_state, "Done"}
    ELSE {"NEW", "ASSIGNED", "RESOLVED"}

\* The values a field of an issue is drawn from.
FieldValues(tracker, field) ==
    CASE field = "title" -> {"t1", "t2"}
      [] field = "state" -> IssueStates(tracker)
      [] field = "description" -> {None, "d1"}
      [] field = "assignees" ->
             AssigneeSets(IF tracker = "github" THEN MaxAssignees ELSE 1)
      [] field = "labels" -> SUBSET {"l1"}
      [] field = "start_date" -> {None, "2026-01-05"}
      [] field = "end_date" -> {None, "2026-02-05"}
      [] field = "priority" -> {None, "P1"}
      [] field = "notion_url" -> {None, "https://notion.so/p1"}

IssueFieldNames ==
    {"title", "state", "description", "assignees", "labels", "start_date",
     "end_date", "priority", "notion_url"}

\* The issue as the tracker has it: GitHub._parse_issue, Bugzilla's parser.
OldIssues(tracker) ==
    [title : {"t1"},
     state : FieldValues(tracker, "state"),
     description : FieldValues(tracker, "description"),
     assignees : FieldValues(tracker, "assignees"),
     labels : FieldValues(tracker, "labels"),
     start_date : FieldValues(tracker, "start_date"),
     end_date : {None},
     priority : FieldValues(tracker, "priority"),
     notion_url : FieldValues(tracker, "notion_url")]

\* GitHub._parse_issue: an issue on the milestones project (and then not on
\* the tasks project) takes state, dates, priority and link from its item;
\* an item without a status reads as the default open state.
ProjectItems(tracker, issue) ==
    IF tracker = "bugzilla" THEN {NullObj}
    ELSE {NullObj} \cup
         {[status |-> s, start_date |-> issue.start_date,
           target_date |-> issue.end_date, priority |-> issue.priority,
           link |-> issue.notion_url] :
            s \in {issue.state} \cup
                  (IF issue.state = notion_default_open_state
                   THEN {None} ELSE {})}

InitMilestone ==
    /\ umTracker \in {"github", "bugzilla"}
    /\ umOld \in OldIssues(umTracker)
    /\ \E f \in IssueFieldNames : \E v \in FieldValues(umTracker, f) :
          umNew = [umOld EXCEPT ![f] = v]
    /\ umItem \in ProjectItems(umTracker, umOld)
    /\ umDry \in BOOLEAN
    /\ umCalls = 0
    /\ umData = NullObj
    /\ umPc = "start"
    /\ IdleExcept("milestone")

\* GitHub._update_issue_basic: the requests it sends.
_update_issue_basic(old, new, dry) ==
    LET matches == \A prop \in {"title", "state", "description"} :
                       new[prop] = old[prop]
    IN IF matches \/ dry THEN 0 ELSE 1

\* GitHub._update_issue_assignees: the requests it sends.
_update_issue_assignees(old, new, dry) ==
    LET db_assignees == {dbid_user(u) : u \in new.assignees}
        old_assignees == {dbid_user(a) : a \in old.assignees}
        new_assignees == community_assignees(old.assignees) \cup db_assignees
        remove == old_assignees \ new_assignees
        add == new_assignees \ old_assignees
    IN IF (remove = {} /\ add = {}) \/ dry THEN 0 ELSE 1

\* GitHub._update_issue_labels: the label ids are looked up (a query unless
\* cached) whenever there is a label to add, the mutation is sent unless dry.
_update_issue_labels(old, new, dry, cached) ==
    LET new_labels == new.labels \ old.labels
    IN IF new_labels = {} THEN 0
       ELSE (IF cached THEN 0 ELSE 1) + (IF dry THEN 0 ELSE 1)

\* GitHubProjectV2.update_project_for_issue(add=True): an issue without an
\* item is added (a mutation), fetched again (a query) and, its item being
\* empty, has its fields set (a mutation); an issue with an item has its
\* fields set when one of them differs.
update_project_for_issue(item, new) ==
    IF item = NullObj THEN 3
    ELSE IF \/ item.status # new.state
            \/ item.start_date # new.start_date
            \/ item.target_date # new.end_date
            \/ item.priority # new.priority
            \/ item.link # new.notion_url
         THEN 1 ELSE 0

\* getnestedattr(lambda: gh_project_item.status.name, default_open_state)
status_name(gh_project_item) ==
    IF gh_project_item.status = None THEN notion_default_open_state
    ELSE gh_project_item.status

\* The test of GitHub._update_issue_project without the comparison of fields.
needs_project_update_always(gh_project_item, new) == TRUE

\* GitHub._update_issue_project: the condition under which the project is
\* written.
needs_project_update(gh_project_item, new) ==
    \/ gh_project_item = NullObj
    \/ status_name(gh_project_item) # new.state
    \/ gh_project_item.start_date # new.start_date
    \/ gh_project_item.target_date # new.end_date
    \/ gh_project_item.priority # new.priority

\* GitHub._update_issue_project: the requests it sends.
_update_issue_project(gh_project_item, new, dry) ==
    IF dry THEN 0
    ELSE IF needs_project_update(gh_project_item, new)
         THEN update_project_for_issue(gh_project_item, new)
         ELSE 0

\* GitHub.update_milestone_issue
github_update_milestone_issue ==
    /\ umPc = "start" /\ umTracker = "github"
    /\ \E cached \in BOOLEAN :
          umCalls' = umCalls
                     + _update_issue_basic(umOld, umNew, umDry)
                     + _update_issue_assignees(umOld, umNew, umDry)
                     + _update_issue_labels(umOld, umNew, umDry, cached)
                     + _update_issue_project(umItem, umNew, umDry)
    /\ umPc' = "done"
    /\ UNCHANGED <<umTracker, umOld, umNew, umItem, umDry, umData>>
    /\ Frame("milestone")

\* A resolution sent with every issue that is RESOLVED afterwards.
resolution_by_new_state(old, new) ==
    IF new.state = "RESOLVED" THEN "FIXED" ELSE ""

\* Bugzilla.update_milestone_issue: data["resolution"], NoField when the key
\* is not set.
NoField == "<no field>"
resolution(old, new) ==
    IF old.state # "RESOLVED" /\ new.state = "RESOLVED" THEN "FIXED"
    ELSE IF old.state = "RESOLVED" /\ new.state # "RESOLVED" THEN ""
    ELSE NoField

\* Bugzilla.update_milestone_issue: the keys of data.
bugzilla_data(old, new, old_assignee, new_assignee) ==
    LET _set_if(prop, bzname) ==
            IF old[prop] # new[prop] THEN {bzname} ELSE {}
        old_assignee_is_notion_user ==
            old_assignee # None /\ notion_user(old_assignee) # None
    IN _set_if("title", "summary")
       \cup _set_if("priority", "priority")
       \cup (IF new.description # None
             THEN _set_if("description", "cf_user_story") ELSE {})
       \cup (IF old.state # new.state THEN {"status"} ELSE {})
       \cup (IF resolution(old, new) # NoField THEN {"resolution"} ELSE {})
       \cup (IF /\ old_assignee # new_assignee
                /\ old_assignee = None \/ old_assignee_is_notion_user
             THEN {"assigned_to"} ELSE {})
       \cup (IF /\ old.notion_url # new.notion_url
                /\ new.notion_url # None
             THEN {"see_also"} ELSE {})

\* Bugzilla.update_milestone_issue: one PUT when data is not empty.
bugzilla_update_milestone_issue_whole ==
    /\ umPc = "start" /\ umTracker = "bugzilla"
    /\ \E old_assignee \in (IF umOld.assignees = {} THEN {None} ELSE umOld.assignees),
          new_assignee \in (IF umNew.assignees = {} THEN {None} ELSE umNew.assignees) :
          LET data == bugzilla_data(umOld, umNew, old_assignee, new_assignee)
          IN IF data # {} /\ ~umDry
             THEN /\ umCalls' = umCalls + 1
                  /\ umData' = [keys |-> data, resolution |-> resolution(umOld, umNew)]
             ELSE UNCHANGED <<umCalls, umData>>
    /\ umPc' = "done"
    /\ UNCHANGED <<umTracker, umOld, umNew, umItem, umDry>>
    /\ Frame("milestone")

NextMilestone ==
    \/ github_update_milestone_issue
    \/ bugzilla_update_milestone_issue_whole

SpecMilestone == InitMilestone /\ [][NextMilestone]_vars

allowed_repositories == {"kewisch/test"}
TaskRefs == {<<"kewisch/test", "3">>, <<"kewisch/test", "4">>,
             <<"kewisch/test", "6">>, <<"other/repo", "3">>}

\* GitHub.is_repo_allowed
is_repo_allowed(reporef) == reporef \in allowed_repositories

\* The Notion page _discover_notion_issues found for an issue.
mock_block(ref) == [id |-> "page-" \o ref[1] \o "#" \o ref[2]]

\* A loop that stores None for every reference, present or not.
store_none(collected, refs) ==
    [r \in DOMAIN collected \cup refs |->
        IF r \in refs THEN NullObj ELSE collected[r]]

\* _schedule_milestone_sync, the loop over tracker_issue.sub_issues:
\* collected_tasks.setdefault(repo, {}).setdefault(id, None)
setdefault_none(collected, refs) ==
    [r \in DOMAIN collected \cup refs |->
        IF r \in DOMAIN collected THEN collected[r] ELSE NullObj]

\* GitHub.collect_additional_tasks: an issue of the sprint board is stored
\* with None when its repository is allowed and it is not collected yet.
collect_additional(collected, refs) ==
    LET added == {r \in refs : is_repo_allowed(r[1]) /\ r \notin DOMAIN collected}
    IN [r \in DOMAIN collected \cup added |->
           IF r \in added THEN NullObj ELSE collected[r]]

\* collected_tasks = deepcopy(self._notion_tasks_issues): the pages of the
\* allowed repositories that carry an issue link.
InitCollect ==
    /\ \E known \in SUBSET {r \in TaskRefs : is_repo_allowed(r[1])} :
          coCollected = [r \in known |-> mock_block(r)]
    /\ coSub \in SUBSET {r \in TaskRefs : is_repo_allowed(r[1])}
    /\ coSprint \in SUBSET TaskRefs
    /\ coPc = "start"
    /\ IdleExcept("collect")

\* ProjectSync._schedule_milestone_sync, the sub-issues of one milestone.
_schedule_milestone_sync ==
    /\ coPc = "start"
    /\ coCollected' = setdefault_none(coCollected, coSub)
    /\ coPc' = "collect"
    /\ UNCHANGED <<coSub, coSprint>>
    /\ Frame("collect")

\* tracker.collect_additional_tasks(collected_tasks)
collect_additional_tasks ==
    /\ coPc = "collect"
    /\ coCollected' = collect_additional(coCollected, coSprint)
    /\ coPc' = "done"
    /\ UNCHANGED <<coSub, coSprint>>
    /\ Frame("collect")

NextCollect == _schedule_milestone_sync \/ collect_additional_tasks

SpecCollect == InitCollect /\ [][NextCollect]_vars

\* C24: a sub-issue of a fetched milestone, or an additional task of the
\* tracker, enters collected_tasks with a null record only when no entry for
\* its (repo, id) is present; an entry that is present keeps its record.
C24_NullOnlyWhenAbsent ==
    [][/\ \A r \in DOMAIN coCollected :
              r \in DOMAIN coCollected' /\ coCollected'[r] = coCollected[r]
       /\ \A r \in DOMAIN coCollected' \ DOMAIN coCollected :
              coCollected'[r] = NullObj]_vars

\* Both loops ran over an issue that already had its page (6) and one that
\* had none (3): the page is kept, the other got the null record.
C24_Witness ==
    /\ coPc = "done"
    /\ <<"kewisch/test", "6">> \in coSub \cap coSprint
    /\ coCollected[<<"kewisch/test", "6">>] = mock_block(<<"kewisch/test", "6">>)
    /\ <<"kewisch/test", "3">> \in coSprint \ coSub
    /\ coCollected[<<"kewisch/test", "3">>] = NullObj

(* ---------------- ProjectSync._find_task_parents ----------------------- *)

MaxParents == 2

\* The issues a task may name as its parents and the milestone pages known.
ParentRefs == {<<"repo", "123">>, <<"repo", "124">>, <<"other", "123">>}
milestone_page(ref) == [id |-> "ms-" \o ref[1] \o "-" \o ref[2]]

\* The list taken from the parents without the lookup in the milestones.
_find_task_parents_unfiltered(milestone_issues, parents) ==
    [i \in 1..Len(parents) |-> milestone_page(parents[i]).id]

\* ProjectSync._find_task_parents: the page id of every parent that
\* milestone_issues.get(parent.repo, {}).get(parent.id) finds, in order.
RECURSIVE _find_task_parents(_, _)
_find_task_parents(milestone_issues, parents) ==
    IF parents = <<>> THEN <<>>
    ELSE LET parent == Head(parents)
             rest == _find_task_parents(milestone_issues, Tail(parents))
         IN IF parent \in DOMAIN milestone_issues
            THEN <<milestone_issues[parent].id>> \o rest
            ELSE rest

InitParents ==
    /\ \E known \in SUBSET ParentRefs :
          fpMilestones = [r \in known |-> milestone_page(r)]
    /\ fpParents \in UNION {[1..n -> ParentRefs] : n \in 0..MaxParents}
    /\ fpRelation = None
    /\ fpPc = "start"
    /\ IdleExcept("parents")

\* synchronize_single_task: parents = self._find_task_parents(tracker_issue),
\* written by _get_task_notion_data as the milestone relation.
find_task_parents ==
    /\ fpPc = "start"
    /\ fpRelation' = _find_task_parents(fpMilestones, fpParents)
    /\ fpPc' = "done"
    /\ UNCHANGED <<fpMilestones, fpParents>>
    /\ Frame("parents")

NextParents == find_task_parents

SpecParents == InitParents /\ [][NextParents]_vars

\* C25: the milestone relation written to a task record is exactly the set
\* of ids of the milestone records whose discovered issue is, by (repo, id),
\* one of the task issue's parents; it is empty when no parent is a
\* discovered milestone.
C25_RelationIsDiscoveredParents ==
    fpPc = "done" =>
        /\ Range(fpRelation) =
               {fpMilestones[r].id : r \in Range(fpParents) \cap DOMAIN fpMilestones}
        /\ (Range(fpParents) \cap DOMAIN fpMilestones = {}) => fpRelation = <<>>

\* A task with one parent that is a discovered milestone and one that is
\* not got the relation of the first alone.
C25_Witness ==
    /\ fpPc = "done"
    /\ fpParents = <<<<"repo", "123">>, <<"other", "123">>>>
    /\ DOMAIN fpMilestones = {<<"repo", "123">>, <<"repo", "124">>}
    /\ fpRelation = <<"ms-repo-123">>

(* ------ records without a link, records with the same issue ------------ *)

MaxRecords == 3

\* The values of the issue link of a record (Unique ID, Bug Number in the
\* older scripts): empty, not the URL of an issue, or the URL of an issue.
Links == {None, "https://example.com/about", "https://example.com/repo/1",
          "https://example.com/repo/2"}

\* tracker.parse_issueref: None for what is not an issue of the tracker.
parse_issueref(url) ==
    CASE url = "https://example.com/repo/1" -> "repo#1"
      [] url = "https://example.com/repo/2" -> "repo#2"
      [] OTHER -> None

\* The records of rcPages, by position.
Records == 1..Len(rcPages)

\* The records that resolve to the issue of an earlier record.
ExcessCopies ==
    {i \in Records : rcPages[i] # None /\ parse_issueref(rcPages[i]) # None
                     /\ \E j \in 1..(i - 1) : rcPages[j] = rcPages[i]}

\* The records without a link.
Linkless == {i \in Records : rcPages[i] = None}

InitRecords ==
    /\ rcScript \in {"engine", "label_sync", "bugzilla_sync"}
    /\ rcPages \in UNION {[1..n -> (IF rcScript = "engine" THEN Links
                                     ELSE Links \ {"https://example.com/about"})] :
                            n \in 0..MaxRecords}
    /\ rcDry \in BOOLEAN
    /\ rcIssues = <<>>
    /\ rcArchived = {}
    /\ rcLog = <<>>
    /\ rcPc = "start"
    /\ IdleExcept("records")

\* BaseSync._discover_notion_issues: the store returns the records whose link
\* is not empty; repos[ref.repo][ref.id] = block for each that parses, a
\* later record taking the place of an earlier one of the same issue.
_discover_notion_issues ==
    /\ rcPc = "start" /\ rcScript = "engine"
    /\ LET blocks == {i \in Records : rcPages[i] # None}
           refs == {parse_issueref(rcPages[i]) : i \in blocks} \ {None}
           last(ref) == CHOOSE i \in blocks :
                            /\ parse_issueref(rcPages[i]) = ref
                            /\ \A j \in blocks :
                                   parse_issueref(rcPages[j]) = ref => j <= i
       IN rcIssues' = [ref \in refs |-> last(ref)]
    /\ rcPc' = "done"
    /\ UNCHANGED <<rcScript, rcPages, rcDry, rcArchived, rcLog>>
    /\ Frame("records")

\* gh_label_sync.synchronize, the loop over the pages: a page without a
\* Unique ID is logged as being deleted and notion_db.delete_page(p["id"])
\* is evaluated, p being the module notion_data: a TypeError, dry or not.
label_sync_pages ==
    /\ rcPc = "start" /\ rcScript = "label_sync"
    /\ IF Linkless = {}
       THEN /\ rcIssues' = [key \in Range(rcPages) |->
                               CHOOSE i \in Records :
                                   /\ rcPages[i] = key
                                   /\ \A j \in Records : rcPages[j] = key => j <= i]
            /\ rcPc' = "done"
            /\ UNCHANGED rcLog
       ELSE LET first == CHOOSE i \in Linkless : \A j \in Linkless : i <= j
            IN /\ rcIssues' = <<>>
               /\ rcLog' = Append(rcLog, [level |-> "error", page |-> first,
                                          text |-> "has no Unique ID! Deleting it..."])
               /\ rcPc' = "TypeError"
    /\ UNCHANGED <<rcScript, rcPages, rcDry, rcArchived>>
    /\ Frame("records")

\* bugzilla_sync.remove_duplicates: of the pages with one bug number the
\* first is kept and the others are deleted (archived unless dry); the
\* caller logs their number.
remove_duplicates ==
    /\ rcPc = "start" /\ rcScript = "bugzilla_sync"
    /\ LET pages_to_delete ==
               {i \in Records : \E j \in 1..(i - 1) : rcPages[j] = rcPages[i]}
       IN /\ rcArchived' = IF rcDry THEN rcArchived
                           ELSE rcArchived \cup pages_to_delete
          /\ rcIssues' = [key \in Range(rcPages) |->
                             CHOOSE i \in Records \ pages_to_delete : rcPages[i] = key]
          /\ rcLog' = Append(rcLog, [level |-> "info", page |-> 0,
                                     text |-> "Total duplicates deleted: "
                                              \o ToString(Cardinality(pages_to_delete))])
    /\ rcPc' = "done"
    /\ UNCHANGED <<rcScript, rcPages, rcDry>>
    /\ Frame("records")

NextRecords ==
    \/ _discover_notion_issues
    \/ label_sync_pages
    \/ remove_duplicates

SpecRecords == InitRecords /\ [][NextRecords]_vars

\* C26 as stated: a record is never archived or deleted merely because it
\* lacks an issue link (or unique issue id); the synchronisation ignores the
\* records without the link: it neither writes to them, nor maps them to an
\* issue, nor stops over them.
C26_LinklessIgnored ==
    rcPc # "start" =>
        /\ Linkless \cap rcArchived = {}
        /\ \A ref \in DOMAIN rcIssues : rcIssues[ref] \notin Linkless
        /\ Linkless # {} => rcPc = "done"

\* C27 as stated: when two records of a collection resolve to the same
\* issue, the excess copies are reported as a data-integrity issue and none
\* of them is deleted.
C27_ExcessCopiesReported ==
    (rcPc = "done" /\ ExcessCopies # {}) =>
        /\ ExcessCopies \cap rcArchived = {}
        /\ \A i \in ExcessCopies :
               \E k \in 1..Len(rcLog) :
                   rcLog[k].level \in {"warning", "error"} /\ rcLog[k].page = i

(* ------- is_prop_diff on an absent or malformed remote envelope -------- *)

\* The envelope of a remote field that is absent (page["properties"].get
\* falls back to {}) or malformed: a title or rich text whose first entry
\* carries no plain_text.
BrokenEnvelopes(kind) ==
    {EmptyDict} \cup
    (CASE kind = "title" -> {[type |-> "title", title |-> <<[text |-> [content |-> "x"]]>>]}
       [] kind = "rich_text" -> {[rich_text |-> <<[text |-> [content |-> "x"]]>>]}
       [] OTHER -> {})

\* A page read from the store with one field absent or malformed.
InitEnvelope ==
    /\ rtKind \in Kinds
    /\ rtVal \in DomainValues(rtKind)
    /\ rtWire \in BrokenEnvelopes(rtKind)
    /\ rtDiff = "none"
    /\ rtPc = "remote"
    /\ IdleExcept("codec")

\* page_diff: cur_props[prop_name].is_prop_diff(old_prop, prop_value)
EnvelopeDiff ==
    /\ rtPc = "remote"
    /\ rtDiff' = is_prop_diff(rtKind, rtWire, rtVal)
    /\ rtPc' = "compared"
    /\ UNCHANGED <<rtKind, rtVal, rtWire>>
    /\ Frame("codec")

NextEnvelope == EnvelopeDiff

SpecEnvelope == InitEnvelope /\ [][NextEnvelope]_vars

\* C28 as stated: for every property kind, diff given an absent or malformed
\* remote field envelope reports "different" and never raises.
C28_BrokenEnvelopeIsDifferent ==
    rtPc = "compared" => rtDiff = "True"

(* ------------- the last-sync stamp in the description ------------------ *)

MaxStamps == 3

\* The project keys of the synchronisations that share the database.
ProjectKeys == {"test", "tb"}

\* timestamp.strftime("%Y-%m-%dT%H:%M:%SZ") of the n-th run.
strftime(n) == "2023-01-01T12:13:1" \o ToString(n) \o "Z"

\* LAST_SYNC_MESSAGE.format(project_key, timestamp). A description is a list
\* of pieces: such messages, other text, and the blank line "\n\n".
LAST_SYNC_MESSAGE(project_key, timestamp) ==
    [message |-> "Last Issue Tracker Sync", key |-> project_key, timestamp |-> timestamp]
BlankLine == [text |-> "\n\n"]
PreviousContent == [text |-> "Previous Content"]

\* Whether a piece matches the pattern: the escaped message of the project
\* key with any timestamp of the format.
matches_pattern(piece, project_key) ==
    "message" \in DOMAIN piece /\ piece.key = project_key

\* re.subn(pattern, repl, description): every match is replaced; the result
\* and the number of matches.
subn(project_key, repl, description) ==
    [description |-> [i \in 1..Len(description) |->
                         IF matches_pattern(description[i], project_key)
                         THEN repl ELSE description[i]],
     count |-> Cardinality({i \in 1..Len(description) :
                                matches_pattern(description[i], project_key)})]

\* A stamping that does not look for an earlier message.
stamped_description_prepending(description, project_key, timestamp) ==
    <<LAST_SYNC_MESSAGE(project_key, timestamp), BlankLine>> \o description

\* _update_timestamp: the description it writes.
stamped_description(description, project_key, timestamp) ==
    LET repl == LAST_SYNC_MESSAGE(project_key, timestamp)
        res == subn(project_key, repl, description)
    IN IF res.count < 1
       THEN <<repl, BlankLine>> \o description
       ELSE res.description

\* The descriptions a database has before a run: text of its users, with or
\* without the message an earlier run left for a project key.
Old == strftime(0)
InitialDescriptions ==
    {<<>>, <<PreviousContent>>,
     <<LAST_SYNC_MESSAGE("test", Old), BlankLine, PreviousContent>>,
     <<PreviousContent, BlankLine, LAST_SYNC_MESSAGE("test", Old)>>,
     <<PreviousContent, LAST_SYNC_MESSAGE("tb", Old), PreviousContent>>,
     <<LAST_SYNC_MESSAGE("tb", Old), BlankLine, LAST_SYNC_MESSAGE("test", Old),
       BlankLine, PreviousContent>>}

InitStamp ==
    /\ stInitial \in InitialDescriptions
    /\ stDescription = stInitial
    /\ stStamped = {}
    /\ stNow = 0
    /\ IdleExcept("stamp")

\* BaseSync._update_timestamp(database, timestamp) at the end of a run of
\* the synchronisation with some project key; nothing is written when dry.
update_timestamp ==
    /\ stNow < MaxStamps
    /\ \E project_key \in ProjectKeys, dry \in BOOLEAN :
          IF dry
          THEN UNCHANGED <<stDescription, stStamped>>
          ELSE /\ stDescription' =
                      stamped_description(stDescription, project_key, strftime(stNow + 1))
               /\ stStamped' = stStamped \cup {project_key}
    /\ stNow' = stNow + 1
    /\ UNCHANGED stInitial
    /\ Frame("stamp")

NextStamp == update_timestamp

SpecStamp == InitStamp /\ [][NextStamp]_vars

\* The messages of a project key in a description.
Occurrences(description, project_key) ==
    {i \in 1..Len(description) : matches_pattern(description[i], project_key)}

\* A description without the messages of the stamped keys and without blank
\* lines.
Rest(description) ==
    SelectSeq(description,
              LAMBDA piece : /\ piece # BlankLine
                             /\ \A k \in stStamped : ~matches_pattern(piece, k))

\* C29: stamping replaces an existing "Last Issue Tracker Sync (<key>):
\* <timestamp>" in the description in place: after any number of runs the
\* description holds exactly one such message for each project key stamped,
\* at the place of the earlier one when there was one, and the rest of the
\* description (the blank line after a new message aside) is unchanged.
C29_OneStampInPlace ==
    \A k \in stStamped :
        /\ Cardinality(Occurrences(stDescription, k)) = 1
        /\ Rest(stDescription) = Rest(stInitial)
        /\ Occurrences(stInitial, k) # {} =>
               \E n \in 0..Len(stDescription) :
                   {i - n : i \in Occurrences(stDescription, k)} = Occurrences(stInitial, k)

\* Three live runs stamped a description whose message for "test" stood
\* after the users' text: it still stands there, once, with the newest time.
C29_Witness ==
    /\ stNow = MaxStamps
    /\ stInitial = <<PreviousContent, BlankLine, LAST_SYNC_MESSAGE("test", Old)>>
    /\ stDescription = <<PreviousContent, BlankLine,
                         LAST_SYNC_MESSAGE("test", strftime(MaxStamps))>>

(* ------------- a failed mutation group and the timestamps -------------- *)

\* C30: if a task of the mutation group raises, the run raises and does not
\* execute the remaining phase: the timestamp tasks are never scheduled, the
\* run does not end normally and no last-sync timestamp is written for it.
C30_FailedGroupNoTimestamp ==
    (\E n \in Group1 : enTg[n] = "failed") =>
        /\ enPc \in {"tasks", "join1", "raised"}
        /\ \A database \in Group2 :
               enTg[database] = "none" /\ enStamps[database] # enRun
        /\ \A k \in DOMAIN enLog : enLog[k].op # "db_update"

\* A live run in which a task sync raised has ended by raising, without a
\* timestamp.
C30_Witness ==
    /\ ~enDry /\ enPc = "raised"
    /\ \E n \in Group1 : enTg[n] = "failed"
    /\ \A database \in Group2 : enStamps[database] # enRun

(* ----------------- Bugzilla.get_issues_by_number ----------------------- *)

MaxBugs == 250
BugzillaChunkSize == 100

\* The numbers of ids asked for: around the chunk boundaries.
BugCounts ==
    {0, 1, 2, 40, 99, 100, 101, 150, 199, 200, 201, 220, 240, MaxBugs - 1, MaxBugs}

\* Bugs the account may not read: the server leaves them out of its answer.
Secure(bugid) == bugid % 40 = 0

\* A slice that reaches one element into the next chunk.
chunk_overlapping(len, i, chunk_size) == (i + 1)..Min(i + chunk_size + 1, len)

\* bugids[i : i + chunk_size], as the positions 1..len of the list.
chunk(len, i, chunk_size) == (i + 1)..Min(i + chunk_size, len)

\* range(0, len(bugids), chunk_size)
chunk_starts(len, chunk_size) ==
    {i \in 0..len : i < len /\ i % chunk_size = 0}

\* The list of the elements of a set of numbers, ascending.
RECURSIVE Ascending(_)
Ascending(S) ==
    IF S = {} THEN <<>>
    ELSE LET m == CHOOSE x \in S : \A y \in S : x <= y
         IN <<m>> \o Ascending(S \ {m})

\* _get_bugzilla_bugs: an Issue for every bug of the answer, then a
\* "Secure Bug" for every id the answer left out.
_get_bugzilla_bugs(bugids) ==
    LET answered == Ascending({b \in bugids : ~Secure(b)})
        unhandled == Ascending({b \in bugids : Secure(b)})
    IN [k \in 1..Len(answered) |-> [id |-> answered[k], title |-> "summary"]]
       \o [k \in 1..Len(unhandled) |-> [id |-> unhandled[k], title |-> "Secure Bug"]]

InitBz ==
    /\ bzLen \in BugCounts
    /\ bzTasks = <<>>
    /\ bzYielded = <<>>
    /\ bzPc = "start"
    /\ IdleExcept("bz")

\* get_issues_by_number up to the first await: a task per chunk.
create_chunk_tasks ==
    /\ bzPc = "start"
    /\ bzTasks' = [i \in chunk_starts(bzLen, BugzillaChunkSize) |-> "pending"]
    /\ bzPc' = "gather"
    /\ UNCHANGED <<bzLen, bzYielded>>
    /\ Frame("bz")

\* One chunk request completes, whichever: as_completed hands it over and
\* its issues are yielded.
chunk_completed ==
    /\ bzPc = "gather"
    /\ \E i \in DOMAIN bzTasks :
          /\ bzTasks[i] = "pending"
          /\ bzTasks' = [bzTasks EXCEPT ![i] = "done"]
          /\ bzYielded' = bzYielded \o
                 _get_bugzilla_bugs(chunk(bzLen, i, BugzillaChunkSize))
    /\ UNCHANGED <<bzLen, bzPc>>
    /\ Frame("bz")

\* Every task was handed over: the generator ends.
all_completed ==
    /\ bzPc = "gather"
    /\ \A i \in DOMAIN bzTasks : bzTasks[i] = "done"
    /\ bzPc' = "returned"
    /\ UNCHANGED <<bzLen, bzTasks, bzYielded>>
    /\ Frame("bz")

NextBz == create_chunk_tasks \/ chunk_completed \/ all_completed

SpecBz == InitBz /\ [][NextBz]_vars

\* C31: Bugzilla get_issues_by_number splits the ids into chunks of a fixed
\* size, one request each, completing in any order; no id is yielded twice
\* on the way and at the end exactly one Issue was yielded for every id.
C31_OneIssuePerId ==
    /\ bzPc \in {"gather", "returned"} =>
           /\ \A i \in DOMAIN bzTasks :
                  Cardinality(chunk(bzLen, i, BugzillaChunkSize)) <= BugzillaChunkSize
           /\ \A j, k \in 1..Len(bzYielded) :
                  bzYielded[j].id = bzYielded[k].id => j = k
    /\ bzPc = "returned" =>
           /\ Len(bzYielded) = bzLen
           /\ \A b \in 1..bzLen : \E k \in 1..Len(bzYielded) : bzYielded[k].id = b

\* Three chunks completed with the last one first, and every one of the
\* MaxBugs ids got its issue.
C31_Witness ==
    /\ bzPc = "returned" /\ bzLen = MaxBugs
    /\ Len(bzYielded) = MaxBugs
    /\ bzYielded[1].id = 2 * BugzillaChunkSize + 1

(* ---------------------- Tracker.parse_issueref ------------------------- *)

\* The URLs a record may carry in its issue field, by their components; a
\* URL without "//" has neither scheme nor netloc.
PathSegments ==
    {<<>>, <<"kewisch">>, <<"kewisch", "test">>, <<"kewisch", "test", "issues">>,
     <<"kewisch", "test", "issues", "1">>, <<"kewisch", "test", "pull", "1">>,
     <<"show_bug.cgi">>, <<"rest", "bug", "1">>}
Urls ==
    [scheme : {"https", "http"},
     netloc : {"github.com", "bugzilla.dev", "BANANAS", "www.notion.so"},
     segments : PathSegments,
     query : {None, "id=1", "ctype=xml"}]
    \cup [scheme : {""}, netloc : {""}, segments : {<<"BANANAS">>}, query : {None}]

\* ref.split("/"): "https:", "", the netloc and the path segments, the
\* query staying on the last part.
split(url) ==
    LET head == IF url.scheme = "" THEN <<>>
                ELSE <<url.scheme \o ":", "", url.netloc>>
        parts == head \o url.segments
    IN IF url.query = None THEN parts
       ELSE [parts EXCEPT ![Len(parts)] = parts[Len(parts)] \o "?" \o url.query]

\* What parse_issueref gives: an IssueRef, None, or an exception.
IssueRef(repo, id) == [kind |-> "IssueRef", repo |-> repo, id |-> id]
NoRef == [kind |-> "None"]
IndexError == [kind |-> "IndexError"]

\* GitHub.parse_issueref: parts[2], parts[5] and parts[6] are read without
\* a test of the length of the list.
github_parse_issueref(url) ==
    LET parts == split(url)
    IN IF Len(parts) < 3 THEN IndexError
       ELSE IF parts[3] # "github.com" THEN NoRef
       ELSE IF Len(parts) < 6 THEN IndexError
       ELSE IF parts[6] # "issues" THEN NoRef
       ELSE IF Len(parts) < 7 THEN IndexError
       ELSE IssueRef(parts[4] \o "/" \o parts[5], parts[7])

\* urllib.parse.urlparse(ref).path
RECURSIVE path(_)
path(segments) ==
    IF segments = <<>> THEN "" ELSE "/" \o Head(segments) \o path(Tail(segments))

\* Bugzilla.parse_issueref: scheme and netloc are those of base_url, the
\* path is /show_bug.cgi and the query has an id.
bugzilla_base_url == "https://bugzilla.dev"
bugzilla_parse_issueref(url) ==
    IF /\ url.scheme \o "://" \o url.netloc = bugzilla_base_url
       /\ path(url.segments) = "/show_bug.cgi"
       /\ url.query = "id=1"
    THEN IssueRef(url.netloc, "1")
    ELSE NoRef

InitRef ==
    /\ prTracker \in {"github", "bugzilla"}
    /\ prUrl \in Urls
    /\ prResult = NullObj
    /\ prPc = "start"
    /\ IdleExcept("ref")

\* ref = self.tracker.parse_issueref(url)
call_parse_issueref ==
    /\ prPc = "start"
    /\ prResult' = IF prTracker = "github" THEN github_parse_issueref(prUrl)
                   ELSE bugzilla_parse_issueref(prUrl)
    /\ prPc' = "done"
    /\ UNCHANGED <<prTracker, prUrl>>
    /\ Frame("ref")

NextRef == call_parse_issueref

SpecRef == InitRef /\ [][NextRef]_vars

\* Whether a URL has the shape of an issue of the backend.
OwnIssueUrl(tracker, url) ==
    IF tracker = "github"
    THEN /\ url.netloc = "github.com"
         /\ Len(url.segments) = 4 /\ url.segments[3] = "issues"
    ELSE /\ url.scheme = "https" /\ url.netloc = "bugzilla.dev"
         /\ url.segments = <<"show_bug.cgi">> /\ url.query = "id=1"

\* C32 as stated: for every URL that does not have the backend's own
\* issue-URL shape, parse_issueref returns null: no IssueRef, no exception.
C32_ForeignUrlIsNull ==
    (prPc = "done" /\ ~OwnIssueUrl(prTracker, prUrl)) => prResult = NoRef

(* ------- an issue on both the tasks and the milestones board ----------- *)

milestones_issue_type == "Milestone"
IssueUrl == "https://github.com/kewisch/test/issues/4"

\* The issues: with or without a parent, of some type, with or without
\* sub-issues.
BoardIssues ==
    [parent : BOOLEAN, issue_type : {None, "Task", milestones_issue_type},
     has_sub_issues : BOOLEAN]

InitBoards ==
    /\ bdVariant \in {"libs", "mzla"}
    /\ bdIssue \in BoardIssues
    /\ bdSubIssues \in BOOLEAN
    /\ bdOnTasks \in BOOLEAN
    /\ bdOnMilestones \in BOOLEAN
    /\ bdComments = <<>>
    /\ bdLog = <<>>
    /\ bdPc = "start"
    /\ IdleExcept("boards")

\* A test that never finds an issue on both boards.
on_both_projects_never(tasks_project_item, milestones_project_item) == FALSE

\* `if tasks_project_item and milestones_project_item`
on_both_projects(tasks_project_item, milestones_project_item) ==
    tasks_project_item /\ milestones_project_item

\* GitHub._parse_issue (libs/project_sync): an issue on both boards raises;
\* else the item of the board it is on gives state, dates and priority.
_parse_issue ==
    /\ bdPc = "start" /\ bdVariant = "libs"
    /\ IF on_both_projects(bdOnTasks, bdOnMilestones)
       THEN /\ bdLog' = Append(bdLog,
                   [level |-> "exception",
                    text |-> "Issue " \o IssueUrl \o " has both tasks and milestones project"])
            /\ bdPc' = "raised"
       ELSE /\ bdPc' = "parsed"
            /\ UNCHANGED bdLog
    /\ UNCHANGED <<bdVariant, bdIssue, bdSubIssues, bdOnTasks, bdOnMilestones, bdComments>>
    /\ Frame("boards")

\* self._comment_on_issue(ghissue, text)
_comment_on_issue(comments, text) == Append(comments, text)

\* GitHubFixups._fixup_issue_both_projects: a milestone (by type, or by its
\* sub-issues) is commented and taken off the tasks board, an issue with a
\* parent is commented and taken off the milestones board, any other issue
\* on both boards raises.
_fixup_issue_both_projects ==
    /\ bdPc = "start" /\ bdVariant = "mzla"
    /\ IF on_both_projects(bdOnTasks, bdOnMilestones)
       THEN IF /\ ~bdIssue.parent
               /\ \/ bdIssue.issue_type = milestones_issue_type
                  \/ (bdSubIssues /\ bdIssue.has_sub_issues)
            THEN /\ bdLog' = Append(bdLog,
                        [level |-> "warning",
                         text |-> "Issue " \o IssueUrl \o " is on both milestone and task project. Removing from task project."])
                 /\ bdComments' = _comment_on_issue(bdComments,
                        "Issues cannot be both on the Milestones and Tasks boards. This appears to be a Milestone issue, removing from Tasks board")
                 /\ bdOnTasks' = FALSE
                 /\ bdPc' = "fixed"
                 /\ UNCHANGED bdOnMilestones
            ELSE IF bdIssue.parent
            THEN /\ bdLog' = Append(bdLog,
                        [level |-> "warning",
                         text |-> "Issue " \o IssueUrl \o " is on both the Milestone and Tasks project. Removing from Milestones project."])
                 /\ bdComments' = _comment_on_issue(bdComments,
                        "Issues cannot be both on the Milestones and Tasks boards. This appears to be a Task, removing from Milestones board")
                 /\ bdOnMilestones' = FALSE
                 /\ bdPc' = "fixed"
                 /\ UNCHANGED bdOnTasks
            ELSE /\ bdLog' = Append(bdLog,
                        [level |-> "exception",
                         text |-> "Issue " \o IssueUrl \o " has both tasks and milestones project"])
                 /\ bdPc' = "raised"
                 /\ UNCHANGED <<bdOnTasks, bdOnMilestones, bdComments>>
       ELSE /\ bdPc' = "parsed"
            /\ UNCHANGED <<bdOnTasks, bdOnMilestones, bdComments, bdLog>>
    /\ UNCHANGED <<bdVariant, bdIssue, bdSubIssues>>
    /\ Frame("boards")

NextBoards == _parse_issue \/ _fixup_issue_both_projects

SpecBoards == InitBoards /\ [][NextBoards]_vars

\* C33: an issue on both the tasks and the milestones board is never parsed
\* by silently preferring one: fetching it raises an error that names the
\* issue, or takes it off one board and leaves a comment on the issue.
C33_BothBoardsNeverSilent ==
    [][(bdPc = "start" /\ bdOnTasks /\ bdOnMilestones) =>
          \/ /\ bdPc' = "raised"
             /\ bdLog'[Len(bdLog')].level = "exception"
             /\ bdLog'[Len(bdLog')].text =
                    "Issue " \o IssueUrl \o " has both tasks and milestones project"
             /\ UNCHANGED <<bdOnTasks, bdOnMilestones, bdComments>>
          \/ /\ bdPc' = "fixed"
             /\ bdOnTasks' # bdOnMilestones'
             /\ Len(bdComments') = Len(bdComments) + 1]_vars

\* A milestone with sub-issues that stood on both boards was commented and
\* is on the milestones board alone.
C33_Witness ==
    /\ bdPc = "fixed" /\ bdVariant = "mzla"
    /\ ~bdIssue.parent /\ bdIssue.issue_type = None /\ bdIssue.has_sub_issues
    /\ bdOnMilestones /\ ~bdOnTasks /\ Len(bdComments) = 1

(* --------------- Bugzilla: the resolution that is sent ----------------- *)

\* The resolution field of the request Bugzilla was sent, NoField when
\* there was no request or none with the field.
SentResolution ==
    IF umData = NullObj \/ "resolution" \notin umData.keys THEN NoField
    ELSE umData.resolution

\* C34: Bugzilla update_milestone_issue (in a live run) sends resolution
\* "FIXED" exactly when the state changes from a state other than RESOLVED
\* to RESOLVED, an empty resolution exactly when it changes from RESOLVED to
\* another state, and no resolution field otherwise; a dry run sends nothing.
C34_ResolutionFollowsTransition ==
    (umPc = "done" /\ umTracker = "bugzilla") =>
        /\ SentResolution = "FIXED" <=>
               (~umDry /\ umOld.state # "RESOLVED" /\ umNew.state = "RESOLVED")
        /\ SentResolution = "" <=>
               (~umDry /\ umOld.state = "RESOLVED" /\ umNew.state # "RESOLVED")
        /\ umDry => umData = NullObj

\* A bug that went from ASSIGNED to RESOLVED was sent status and FIXED.
C34_Witness ==
    /\ umPc = "done" /\ umTracker = "bugzilla" /\ ~umDry
    /\ umOld.state = "ASSIGNED" /\ umNew.state = "RESOLVED"
    /\ umData # NullObj /\ umData.keys = {"status", "resolution"}
    /\ umData.resolution = "FIXED"

(* ------------------- no second record for an issue --------------------- *)

C36_ClosedUntilDeadline ==
    trGate # NullObj => (trGate.until > 0 => ~trGate.event)

\* The callers that share the gate, under the scheduling of the event
\* loop: a second always passes, a task that is ready gets its turn (the
\* _unlock task, a caller past its sleep or its wait), and a request that
\* is in flight is answered or times out.
MaxGateFaults == 1

InitGate ==
    /\ trCaller = [c \in {"c1", "c2"} |-> NewCaller]
    /\ trClient = "notion"
    /\ trAuto = FALSE
    /\ trFaults = MaxGateFaults
    /\ trGate = [event |-> TRUE, until |-> 0, unlocks |-> {}]
    /\ trEngages = [windows |-> 0, ignored |-> 0]
    /\ IdleExcept("transport")

NextGate ==
    \/ \E c \in DOMAIN trCaller : send(c)
    \/ \E c \in DOMAIN trCaller : wait_open_resume(c)
    \/ \E c \in DOMAIN trCaller : wait_open_woken(c)
    \/ \E c \in DOMAIN trCaller : wait_open_return(c)
    \/ \E c \in DOMAIN trCaller : async_send_response(c)
    \/ _unlock
    \/ Tick

SpecGate ==
    /\ InitGate /\ [][NextGate]_vars
    /\ WF_vars(Tick) /\ WF_vars(_unlock)
    /\ \A c \in {"c1", "c2"} :
          /\ WF_vars(send(c))
          /\ WF_vars(wait_open_resume(c))
          /\ WF_vars(wait_open_woken(c))
          /\ WF_vars(wait_open_return(c))
          /\ WF_vars(async_send_response(c))

MaxDerivations == 3

\* The names a status property may carry, None for a status that is null.
StatusNames ==
    {None, "Backlog", "Todo", "In Progress", "In Review", "Done", "Canceled"}

\* A task page as far as its Status goes.
StatusPage(name) ==
    [properties |-> [Status |-> [status |->
        IF name = None THEN NullObj ELSE [name |-> name]]]]

\* An issue of a tracker without discrete states: state is None or "".
StatelessIssues ==
    [state : {None, ""}, closed_date : {NoDate, ClosedAt}]

InitStatus ==
    /\ stIssue \in StatelessIssues
    /\ stPage \in {NullObj} \cup {StatusPage(n) : n \in StatusNames}
    /\ stDerived = <<>>
    /\ stRuns = 0
    /\ IdleExcept("status")

\* dict_to_page and the write: a Status that is falsy is not part of the
\* page sent, so the record keeps what it had.
written_status(old_page, status) ==
    IF Truthy(status) THEN StatusPage(status) ELSE old_page

\* One run over the task: the status is derived from the issue and the
\* record, and the record is written with it.
derive_status ==
    /\ stRuns < MaxDerivations
    /\ LET status == final_status(stIssue.state, stIssue.closed_date, stPage)
       IN /\ stDerived' = Append(stDerived, status)
          /\ stPage' = written_status(stPage, status)
    /\ stRuns' = stRuns + 1
    /\ UNCHANGED stIssue
    /\ Frame("status")

\* Between two runs the issue is closed or reopened in the tracker.
issue_changes ==
    /\ stRuns < MaxDerivations
    /\ stDerived # <<>>
    /\ stIssue' = [stIssue EXCEPT !.closed_date =
                      IF @ = NoDate THEN ClosedAt ELSE NoDate]
    /\ stDerived' = <<>>
    /\ UNCHANGED <<stPage, stRuns>>
    /\ Frame("status")

NextStatus == derive_status \/ issue_changes

SpecStatus == InitStatus /\ [][NextStatus]_vars

\* C38: for an issue without a discrete state, deriving the status again
\* from the record that carries the previously derived status, with the
\* closed date as present or absent as before, gives the same status: over
\* runs in which the issue does not change the status does not alternate.
C38_StatusStable ==
    \A i, j \in DOMAIN stDerived : stDerived[i] = stDerived[j]

\* For an issue without closed date the default open status was derived
\* in the first run and again in every run after it.
C38_Witness ==
    /\ stIssue.closed_date = NoDate
    /\ Len(stDerived) = MaxDerivations
    /\ stDerived[1] = notion_default_open_state
    /\ stDerived[MaxDerivations] = notion_default_open_state
    /\ stPage = StatusPage(notion_default_open_state)

(* --------------------- schema validation at startup -------------------- *)

Databases == {"milestones_db", "tasks_db"}

\* NotionDatabase.to_dict: the properties the run is configured with.
desired_props ==
    [Title |-> [type |-> "title", options |-> {}],
     Status |-> [type |-> "status", options |-> {}],
     Priority |-> [type |-> "select", options |-> {"P1", "P2"}]]

\* The properties a collection may have: as configured, with other select
\* options, with one more property, with Priority of another type, and
\* without Priority.
CurrentProps ==
    {desired_props,
     [desired_props EXCEPT !.Priority.options = {"P1"}],
     [Title |-> desired_props.Title, Status |-> desired_props.Status,
      Priority |-> desired_props.Priority,
      Extra |-> [type |-> "rich_text", options |-> {}]],
     [desired_props EXCEPT !.Priority.type = "rich_text"],
     [Title |-> desired_props.Title, Status |-> desired_props.Status]}

\* The properties validate_props counts as changes: missing or of another
\* type. Differing select options are logged and not counted.
changed_props(desired, current) ==
    {n \in DOMAIN desired :
        \/ n \notin DOMAIN current
        \/ current[n].type # desired[n].type}

\* The databases.update calls of validate_props.
schema_updates(desired, current, delete, update, dry) ==
    (IF delete /\ ~dry
     THEN {n \in DOMAIN current :
              n \notin DOMAIN desired /\ current[n].type \notin {"status", "title"}}
     ELSE {})
    \cup
    (IF update /\ ~dry
     THEN changed_props(desired, current) \cup
          {n \in DOMAIN desired \cap DOMAIN current :
              /\ current[n].type = desired[n].type
              /\ desired[n].type = "select"
              /\ current[n].options # desired[n].options}
     ELSE {})

\* validate_props: return not changes
validate_props(desired, current) == changed_props(desired, current) = {}

\* An _async_init that looks at the milestones schema alone.
startup_raises_milestones_only(valid) == valid.milestones_db = "invalid"

\* _async_init after its task group: the two results are tested.
startup_raises(valid) ==
    valid.milestones_db = "invalid" \/ valid.tasks_db = "invalid"

\* The calls that change a record or a tracker issue.
Writes == {"page_create", "page_update", "page_archive", "tracker_update"}

InitStartup ==
    /\ suCurrent \in [Databases -> CurrentProps]
    /\ suDry \in BOOLEAN
    /\ suValid = [d \in Databases |-> "pending"]
    /\ suDiscovered = FALSE
    /\ suLog = <<>>
    /\ suPc = "init"
    /\ IdleExcept("startup")

\* The task of validate_props of one collection, called with the defaults
\* delete=False, update=False: the schema is retrieved and compared.
validate_props_task(d) ==
    /\ suPc = "init"
    /\ suValid[d] = "pending"
    /\ suValid' = [suValid EXCEPT ![d] =
                      IF validate_props(desired_props, suCurrent[d])
                      THEN "valid" ELSE "invalid"]
    /\ suLog' = suLog \o <<Entry("db_info", d)>> \o
                   (IF schema_updates(desired_props, suCurrent[d], FALSE, FALSE, suDry) = {}
                    THEN <<>> ELSE <<Entry("db_update", d)>>)
    /\ UNCHANGED <<suCurrent, suDry, suDiscovered, suPc>>
    /\ Frame("startup")

\* The task of _discover_notion_issues: the task records are queried.
discover_task ==
    /\ suPc = "init"
    /\ ~suDiscovered
    /\ suDiscovered' = TRUE
    /\ suLog' = Append(suLog, Entry("db_query", "tasks_db"))
    /\ UNCHANGED <<suCurrent, suDry, suValid, suPc>>
    /\ Frame("startup")

\* The end of the task group of _async_init and the two tests after it.
async_init_exit ==
    /\ suPc = "init"
    /\ suDiscovered
    /\ \A d \in Databases : suValid[d] # "pending"
    /\ suPc' = IF startup_raises(suValid) THEN "raised" ELSE "synchronize"
    /\ UNCHANGED <<suCurrent, suDry, suValid, suDiscovered, suLog>>
    /\ Frame("startup")

\* synchronize after _async_init: the records and issues are written,
\* unless the run is dry.
synchronize_writes ==
    /\ suPc = "synchronize"
    /\ \E op \in Writes :
          suLog' = IF suDry THEN suLog ELSE Append(suLog, Entry(op, "t1"))
    /\ suPc' = "done"
    /\ UNCHANGED <<suCurrent, suDry, suValid, suDiscovered>>
    /\ Frame("startup")

NextStartup ==
    \/ \E d \in Databases : validate_props_task(d)
    \/ discover_task
    \/ async_init_exit
    \/ synchronize_writes

SpecStartup == InitStartup /\ [][NextStartup]_vars

\* C39: when the validation of the milestones schema or of the tasks schema
\* fails, the run raises and has sent no page create, update or archive and
\* no change of a tracker issue, then or before.
C39_InvalidSchemaNoWrites ==
    (\E d \in Databases : suValid[d] = "invalid") =>
        /\ suPc \in {"init", "raised"}
        /\ \A k \in DOMAIN suLog : suLog[k].op \in {"db_info", "db_query"}

\* A live run raised over a tasks schema that lacks a property, after the
\* reads of its start.
C39_Witness ==
    /\ ~suDry /\ suPc = "raised"
    /\ suValid.milestones_db = "valid" /\ suValid.tasks_db = "invalid"
    /\ "Priority" \notin DOMAIN suCurrent.tasks_db
    /\ Len(suLog) = 3

====
